---- MODULE Spec2Model ----
(***************************************************************************)
(* Model of the two refresh scripts of the repository:                     *)
(*   scripts/update_alabama_tracker.py  (Alabama primary tracker)          *)
(*   scripts/update_race_data.py        (swing-Senate race data)           *)
(*                                                                         *)
(* A Python str is a sequence of one-character strings, so that regular    *)
(* expressions, substring tests and lower() are computed character by      *)
(* character.  A Python float is an exact decimal [m, e] = m / 10^e kept   *)
(* in lowest form, which is exact for the short decimals of the model.     *)
(* Python's None is the record None.                                       *)
(***************************************************************************)
EXTENDS Integers, Sequences, FiniteSets, TLC

VARIABLES
    pc,                 \* position of the run
    arg,                \* the input of the run: the arguments of the function
                        \* under call and what the endpoints answer
    ret,                \* its return value
    races,              \* update_alabama_tracker.main: races
    race_i,             \* update_alabama_tracker.main: index of the next race
    fetched,            \* update_alabama_tracker.main: the answers seen so far
    cook,               \* update_race_data.main: cook
    primary_dates,      \* update_race_data.main: primary_dates
    swing_states,       \* update_race_data.main: swing_states
    senate_map_states,  \* update_race_data.main: senate_map_states
    todo                \* update_race_data.main: the states still to visit

vars == <<pc, arg, ret, races, race_i, fetched,
          cook, primary_dates, swing_states, senate_map_states, todo>>

----------------------------------------------------------------------------
(* Bounds of the model *)

\* longest string handed to as_float_percent
MaxStrLen == 4

\* largest mantissa of a number handed to maybe_parse_price
MaxPriceMantissa == 150

----------------------------------------------------------------------------
(* Python values *)

None == [tag |-> "None"]
Raised == [tag |-> "Raised"]

IsDigit(c) == c \in {"0", "1", "2", "3", "4", "5", "6", "7", "8", "9"}

DigitChar(d) == <<"0", "1", "2", "3", "4", "5", "6", "7", "8", "9">>[d + 1]

Upper == <<"A", "B", "C", "D", "E", "F", "G", "H", "I", "J", "K", "L", "M",
           "N", "O", "P", "Q", "R", "S", "T", "U", "V", "W", "X", "Y", "Z">>

Lower == <<"a", "b", "c", "d", "e", "f", "g", "h", "i", "j", "k", "l", "m",
           "n", "o", "p", "q", "r", "s", "t", "u", "v", "w", "x", "y", "z">>

\* the place of c among the capitals, 0 for any other character
UpperIndex(c) == IF \E i \in 1..26 : Upper[i] = c
                 THEN CHOOSE i \in 1..26 : Upper[i] = c
                 ELSE 0

\* str.lower(), character by character
lower(s) ==
    LET Low(c, k) == IF k = 0 THEN c ELSE Lower[k]
    IN [i \in 1..Len(s) |-> Low(s[i], UpperIndex(s[i]))]

IsSpace(c) == c \in {" ", "\t", "\n"}

\* a in b  (substring test of two str)
Contains(b, a) ==
    \E i \in 0..(Len(b) - Len(a)) : SubSeq(b, i + 1, i + Len(a)) = a

StartsWith(s, p) == Len(s) >= Len(p) /\ SubSeq(s, 1, Len(p)) = p

RECURSIVE LStrip(_)
LStrip(s) == IF s # <<>> /\ IsSpace(s[1]) THEN LStrip(Tail(s)) ELSE s

RECURSIVE RStrip(_)
RStrip(s) == IF s # <<>> /\ IsSpace(s[Len(s)])
             THEN RStrip(SubSeq(s, 1, Len(s) - 1)) ELSE s

\* str.strip()
Strip(s) == RStrip(LStrip(s))

\* sep.join(parts)
RECURSIVE Join(_, _)
Join(sep, parts) ==
    IF parts = <<>> THEN <<>>
    ELSE IF Len(parts) = 1 THEN parts[1]
    ELSE parts[1] \o sep \o Join(sep, Tail(parts))

----------------------------------------------------------------------------
(* Floats as exact decimals *)

RECURSIVE Norm(_)
Norm(d) == IF d.e > 0 /\ d.m % 10 = 0
           THEN Norm([m |-> d.m \div 10, e |-> d.e - 1])
           ELSE d

Dec(m, e) == Norm([m |-> m, e |-> e])

DecLess(a, b) == a.m * 10^(b.e) < b.m * 10^(a.e)

DecLeq(a, b) == a.m * 10^(b.e) <= b.m * 10^(a.e)

RECURSIVE DigitsValue(_, _)
DigitsValue(s, acc) ==
    LET DigitVal(c) == CHOOSE d \in 0..9 : DigitChar(d) = c
    IN IF s = <<>> THEN acc
       ELSE DigitsValue(Tail(s), 10 * acc + DigitVal(s[1]))

AllDigits(s) == \A i \in 1..Len(s) : IsDigit(s[i])

\* index of the first "." of s, 0 when there is none
RECURSIVE DotIndex(_, _)
DotIndex(s, i) ==
    IF i > Len(s) THEN 0 ELSE IF s[i] = "." THEN i ELSE DotIndex(s, i + 1)

\* float(s) of an unsigned decimal literal: digits, "." and digits
UnsignedFloat(s) ==
    LET Parts(ip, fp) ==
            IF (ip \o fp) # <<>> /\ AllDigits(ip) /\ AllDigits(fp)
            THEN Dec(DigitsValue(ip \o fp, 0), Len(fp))
            ELSE Raised
        SplitAt(d) ==
            Parts(IF d = 0 THEN s ELSE SubSeq(s, 1, d - 1),
                  IF d = 0 THEN <<>> ELSE SubSeq(s, d + 1, Len(s)))
    IN SplitAt(DotIndex(s, 1))

\* float(s) of a str: surrounding blanks and one sign are accepted; anything
\* that is no decimal literal raises ValueError
float_str(s) ==
    LET Signed(neg, v) ==
            IF v = Raised THEN Raised
            ELSE IF neg THEN Dec(0 - v.m, v.e) ELSE v
        Stripped(t) ==
            Signed(t # <<>> /\ t[1] = "-",
                   UnsignedFloat(IF t # <<>> /\ t[1] \in {"-", "+"}
                                 THEN Tail(t) ELSE t))
    IN Stripped(Strip(s))

----------------------------------------------------------------------------
(* update_alabama_tracker.py: text helpers *)

\* index of the first digit of s at or after i, 0 when there is none
RECURSIVE FirstDigit(_, _)
FirstDigit(s, i) ==
    IF i > Len(s) THEN 0
    ELSE IF IsDigit(s[i]) THEN i ELSE FirstDigit(s, i + 1)

\* last index of the run of digits of s that starts at i
RECURSIVE DigitRunEnd(_, _)
DigitRunEnd(s, i) ==
    IF i < Len(s) /\ IsDigit(s[i + 1]) THEN DigitRunEnd(s, i + 1) ELSE i

\* a search that forgets the optional fractional group
NumberSearchNoFraction(v) ==
    LET From(i) ==
            IF i = 0 THEN None
            ELSE [tag |-> "Match", group1 |-> SubSeq(v, i, DigitRunEnd(v, i))]
    IN From(FirstDigit(v, 1))

\* re.search(r"([0-9]+(?:\.[0-9]+)?)", v): the leftmost match, each
\* quantifier greedy
NumberSearch(v) ==
    LET \* the digits from i to j, and the fractional group when one follows
        Group(i, j) ==
            [tag |-> "Match",
             group1 |-> SubSeq(v, i,
                               IF j + 2 <= Len(v) /\ v[j + 1] = "."
                                  /\ IsDigit(v[j + 2])
                               THEN DigitRunEnd(v, j + 2) ELSE j)]
        From(i) == IF i = 0 THEN None ELSE Group(i, DigitRunEnd(v, i))
    IN From(FirstDigit(v, 1))

as_float_percent(v) ==
    LET Value(x) == IF x = Raised THEN None ELSE x
        Found(m) == IF m = None THEN None ELSE Value(float_str(m.group1))
    IN Found(NumberSearch(v))

----------------------------------------------------------------------------
(* update_race_data.py: market prices *)

\* Python values that reach float(): a number, a str, or a list or dict
PyNum(d) == [tag |-> "num", val |-> d]

PyStr(s) == [tag |-> "str", val |-> s]

PyObj == [tag |-> "obj"]

\* float(value): a number converts, a str is parsed, None and containers
\* raise TypeError
float_any(value) ==
    CASE value.tag = "num" -> value.val
      [] value.tag = "str" -> float_str(value.val)
      [] OTHER -> Raised

Zero == [m |-> 0, e |-> 0]

One == [m |-> 1, e |-> 0]

\* x / 100.0
DecDiv100(x) == Dec(x.m, x.e + 2)

\* the normalisation without its final clamp
maybe_parse_price_unclamped(value) ==
    LET Scaled(x0) ==
            IF x0 = Raised THEN None
            ELSE IF DecLess(One, x0) THEN DecDiv100(x0) ELSE x0
    IN IF value = None THEN None ELSE Scaled(float_any(value))

maybe_parse_price(value) ==
    LET Max(a, b) == IF DecLess(a, b) THEN b ELSE a
        Min(a, b) == IF DecLess(b, a) THEN b ELSE a
        Scaled(x0) ==
            IF x0 = Raised THEN None
            ELSE Max(Zero, Min(One, IF DecLess(One, x0)
                                    THEN DecDiv100(x0) ELSE x0))
    IN IF value = None THEN None ELSE Scaled(float_any(value))

----------------------------------------------------------------------------
(* Idle parts of the state *)

IdleTracker == races = <<>> /\ race_i = 0 /\ fetched = <<>>

IdleRaceData ==
    /\ cook = None
    /\ primary_dates = None
    /\ swing_states = <<>>
    /\ senate_map_states = <<>>
    /\ todo = <<>>

trackerVars == <<races, race_i, fetched>>

raceDataVars == <<cook, primary_dates, swing_states, senate_map_states, todo>>

----------------------------------------------------------------------------
(* as_float_percent on every short string of percentage-cell characters *)

InitPercent ==
    /\ pc = "call"
    /\ arg \in UNION {[1..n -> {"0", "4", "7", ".", "%", "-"}] : n \in 0..MaxStrLen}
    /\ ret = None
    /\ IdleTracker /\ IdleRaceData

CallAsFloatPercent ==
    /\ pc = "call"
    /\ ret' = as_float_percent(arg)
    /\ pc' = "done"
    /\ UNCHANGED <<arg, trackerVars, raceDataVars>>

SpecPercent == InitPercent /\ [][CallAsFloatPercent]_vars

\* a numeric token: digits, optionally followed by "." and digits
IsNumericToken(t) ==
    \E d \in 1..Len(t) :
        /\ AllDigits(SubSeq(t, 1, d))
        /\ \/ d = Len(t)
           \/ /\ d + 2 <= Len(t)
              /\ t[d + 1] = "."
              /\ AllDigits(SubSeq(t, d + 2, Len(t)))

\* s[i..k] is the first numeric token of s: it starts at the leftmost digit
\* and no longer token starts there
IsFirstToken(s, i, k) ==
    /\ IsDigit(s[i])
    /\ \A h \in 1..(i - 1) : ~IsDigit(s[h])
    /\ IsNumericToken(SubSeq(s, i, k))
    /\ \A k2 \in (k + 1)..Len(s) : ~IsNumericToken(SubSeq(s, i, k2))

\* C7: as_float_percent returns the value of the first (leftmost) numeric
\* token of a string that contains a digit, whatever surrounds it, and None
\* for a string without a digit.
C7_FirstNumericToken ==
    pc = "done" =>
        IF \E i \in 1..Len(arg) : IsDigit(arg[i])
        THEN \E i \in 1..Len(arg) : \E k \in i..Len(arg) :
                /\ IsFirstToken(arg, i, k)
                /\ ret = UnsignedFloat(SubSeq(arg, i, k))
                /\ ret # Raised
        ELSE ret = None

\* a signed percentage followed by a later number: "-4.7%0" style inputs
C7_Witness ==
    /\ pc = "done"
    /\ arg = <<"-", "4", ".", "7">>
    /\ ret = [m |-> 47, e |-> 1]

----------------------------------------------------------------------------
(* maybe_parse_price on numbers, numeric and other strings, None, objects *)

InitPrice ==
    /\ pc = "call"
    /\ arg \in {None, PyObj}
         \cup {PyNum(Dec(m, e)) :
                 m \in (0 - MaxPriceMantissa)..MaxPriceMantissa, e \in 0..2}
         \cup {PyStr(s) : s \in
                 { <<"0", ".", "4", "5">>, <<"4", "5">>, <<" ", "7", " ">>,
                   <<"-", "3">>, <<"1", "5", "0">>, <<"a", "b", "c">>, <<>>,
                   <<"4", "5", "%">> }}
    /\ ret = None
    /\ IdleTracker /\ IdleRaceData

CallMaybeParsePrice ==
    /\ pc = "call"
    /\ ret' = maybe_parse_price(arg)
    /\ pc' = "done"
    /\ UNCHANGED <<arg, trackerVars, raceDataVars>>

SpecPrice == InitPrice /\ [][CallMaybeParsePrice]_vars

Hundred == [m |-> 100, e |-> 0]

\* r = x / 100, stated by cross-multiplication
IsHundredth(r, x) == r.m * 100 * 10^(x.e) = x.m * 10^(r.e)

\* C5: maybe_parse_price maps a numeric x into [0,1]: x in [0,1] unchanged,
\* x in (1,100] to x/100, x above 100 to 1, negative x to 0; a missing or
\* non-numeric input gives None.
C5_PriceNormalised ==
    pc = "done" =>
        IF arg = None \/ float_any(arg) = Raised
        THEN ret = None
        ELSE LET x == float_any(arg)
             IN /\ ret # None
                /\ DecLeq(Zero, ret) /\ DecLeq(ret, One)
                /\ (DecLeq(Zero, x) /\ DecLeq(x, One)) => ret = x
                /\ (DecLess(One, x) /\ DecLeq(x, Hundred)) => IsHundredth(ret, x)
                /\ DecLess(Hundred, x) => ret = One
                /\ DecLess(x, Zero) => ret = Zero

\* a price quoted in cents: 45 becomes 0.45
C5_Witness ==
    /\ pc = "done"
    /\ arg = PyNum([m |-> 45, e |-> 0])
    /\ ret = [m |-> 45, e |-> 2]

----------------------------------------------------------------------------
(* update_alabama_tracker.py: the parsed page                              *)
(*                                                                         *)
(* A document is [tables, cites].  A table is [class, groups]: its class   *)
(* attribute and its row parents (thead, tbody) in document order, each a  *)
(* sequence of rows; a row is a sequence of cells [kind, text, refs], kind *)
(* "th" or "td", text the cell's text nodes joined by blanks, refs the     *)
(* hrefs of its reference links.  cites are the li elements whose id       *)
(* starts with cite_note-, each [id, links].                               *)

Th(text) == [kind |-> "th", text |-> text, refs |-> <<>>]

Td(text) == [kind |-> "td", text |-> text, refs |-> <<>>]

InSeq(x, s) == \E i \in 1..Len(s) : s[i] = x

\* s.index(x): the first index holding x
IndexOf(s, x) == CHOOSE i \in 1..Len(s) : s[i] = x /\ \A j \in 1..(i - 1) : s[j] # x

\* index of the first occurrence of pat in s at or after i, 0 when there is
\* none
Find(s, pat, i) ==
    LET First(at) == IF at = {} THEN 0
                     ELSE CHOOSE j \in at : \A k \in at : j <= k
    IN First({j \in i..(Len(s) - Len(pat) + 1) :
                SubSeq(s, j, j + Len(pat) - 1) = pat})

\* re.sub(r"\[[^\]]+\]", "", text)
RECURSIVE StripCitations(_)
StripCitations(s) ==
    IF s = <<>> THEN <<>>
    ELSE LET j == IF s[1] = "[" THEN Find(s, <<"]">>, 2) ELSE 0
         IN IF j >= 3
            THEN StripCitations(SubSeq(s, j + 1, Len(s)))
            ELSE <<s[1]>> \o StripCitations(Tail(s))

\* re.sub(r"\s+", " ", text): one blank for the first character of every
\* run of whitespace, nothing for the others
CollapseSpaces(s) ==
    LET Kept(at) == [k \in 1..Len(at) |->
                       IF IsSpace(s[at[k]]) THEN " " ELSE s[at[k]]]
    IN Kept(SelectSeq([i \in 1..Len(s) |-> i],
                      LAMBDA i : ~IsSpace(s[i]) \/ i = 1 \/ ~IsSpace(s[i - 1])))

clean_text(text) == Strip(CollapseSpaces(StripCitations(text)))

\* .//tr[1]/th : the th cells of every row that is the first of its parent
RECURSIVE HeaderCells(_)
HeaderCells(groups) ==
    IF groups = <<>> THEN <<>>
    ELSE (IF groups[1] = <<>> THEN <<>>
          ELSE SelectSeq(groups[1][1], LAMBDA c : c.kind = "th"))
         \o HeaderCells(Tail(groups))

\* .//tr[position()>1] : every row that is not the first of its parent
RECURSIVE DataRows(_)
DataRows(groups) ==
    IF groups = <<>> THEN <<>>
    ELSE (IF groups[1] = <<>> THEN <<>> ELSE Tail(groups[1]))
         \o DataRows(Tail(groups))

\* [clean_text(" ".join(th.xpath(".//text()"))) for th in t.xpath(".//tr[1]/th")]
TableHeaders(t) ==
    LET cells == HeaderCells(t.groups)
    IN [i \in 1..Len(cells) |-> clean_text(cells[i].text)]

\* the header test of find_table: every token is a substring of the joined
\* header texts
HeaderMatches(t, must_include) ==
    LET h == Join(<<" ", "|", " ">>, TableHeaders(t))
    IN \A k \in 1..Len(must_include) : Contains(h, must_include[k])

\* a locator that looks at every table, whatever its class
RECURSIVE find_table_any_class(_, _)
find_table_any_class(doc, must_include) ==
    IF doc.tables = <<>> THEN None
    ELSE IF HeaderMatches(doc.tables[1], must_include) THEN doc.tables[1]
    ELSE find_table_any_class([doc EXCEPT !.tables = Tail(doc.tables)], must_include)

RECURSIVE find_table(_, _)
find_table(doc, must_include) ==
    IF doc.tables = <<>> THEN None
    ELSE IF Contains(doc.tables[1].class, <<"w", "i", "k", "i", "t", "a",
                                            "b", "l", "e">>)
            /\ HeaderMatches(doc.tables[1], must_include)
         THEN doc.tables[1]
    ELSE find_table([doc EXCEPT !.tables = Tail(doc.tables)], must_include)

\* notes: the first http link of each cite, a later cite of the same id
\* replacing an earlier one
RECURSIVE extract_notes(_)
extract_notes(cites) ==
    IF cites = <<>> THEN <<>>
    ELSE LET li == cites[Len(cites)]
             links == SelectSeq(li.links, LAMBDA u : StartsWith(u, <<"h",
                                                                     "t",
                                                                     "t",
                                                                     "p">>))
             before == extract_notes(SubSeq(cites, 1, Len(cites) - 1))
         IN IF links = <<>> THEN before
            ELSE SelectSeq(before, LAMBDA n : n.id # li.id)
                 \o <<[id |-> li.id, url |-> links[1]]>>

----------------------------------------------------------------------------
(* update_alabama_tracker.py: parse_table *)

\* rows[:8]
VisibleRows == 8

\* the first candidate column, counted from 1: headers[4:]
FirstCandidateColumn == 5

\* the loop over headers[4:] up to the first "other" or "undecided"
RECURSIVE TakeCandidates(_)
TakeCandidates(hs) ==
    IF hs = <<>> THEN <<>>
    ELSE IF lower(hs[1]) \in {<<"o", "t", "h", "e", "r">>, <<"u", "n", "d",
                                                             "e", "c", "i",
                                                             "d", "e", "d">>} THEN <<>>
    ELSE <<hs[1]>> \o TakeCandidates(Tail(hs))

\* candidate columns taken from the third header on
CandidateHeadersFromThird(headers) ==
    TakeCandidates(SubSeq(headers, 3, Len(headers)))

CandidateHeaders(headers) ==
    TakeCandidates(SubSeq(headers, FirstCandidateColumn, Len(headers)))

\* for c in candidate_headers: if c not in ordered: ordered.append(c)
RECURSIVE AppendUnseen(_, _)
AppendUnseen(ordered, cs) ==
    IF cs = <<>> THEN ordered
    ELSE AppendUnseen(IF InSeq(cs[1], ordered) THEN ordered
                      ELSE Append(ordered, cs[1]), Tail(cs))

\* the candidate columns left in table order
TableOrderCandidates(target_candidates, candidate_headers) == candidate_headers

OrderedCandidates(target_candidates, candidate_headers) ==
    AppendUnseen(SelectSeq(target_candidates,
                           LAMBDA c : InSeq(c, candidate_headers)),
                 candidate_headers)

\* str(n) of a natural number
RECURSIVE IntStr(_)
IntStr(n) == IF n < 10 THEN <<DigitChar(n)>>
             ELSE IntStr(n \div 10) \o <<DigitChar(n % 10)>>

\* f"{lead:.1f}" of a lead >= 0
Format1f(d) ==
    LET Digits(t) == IntStr(t \div 10) \o <<".">> \o <<DigitChar(t % 10)>>
        \* d * 10 rounded to an integer, ties to even
        Round(p, q, r) ==
            IF 2 * r > p \/ (2 * r = p /\ q % 2 = 1) THEN q + 1 ELSE q
        Scale(p) == Round(p, d.m \div p, d.m % p)
    IN Digits(IF d.e <= 1 THEN d.m * 10^(1 - d.e) ELSE Scale(10^(d.e - 1)))

\* s.replace(old, new), old not empty
RECURSIVE Replace(_, _, _)
Replace(s, old, new) ==
    LET At(a) ==
            IF a = 0 THEN s
            ELSE SubSeq(s, 1, a - 1) \o new
                 \o Replace(SubSeq(s, a + Len(old), Len(s)), old, new)
    IN At(Find(s, old, 1))

\* s.split()[-1]: the last blank-separated word; IndexError when there is none
RECURSIVE LastWordOf(_)
LastWordOf(s) ==
    IF s = <<>> \/ IsSpace(s[Len(s)]) THEN <<>>
    ELSE Append(LastWordOf(SubSeq(s, 1, Len(s) - 1)), s[Len(s)])

\* the whole name in place of its last word
WholeName(s) == PyStr(s)

LastWord(s) ==
    LET Of(t) == IF t = <<>> THEN Raised ELSE PyStr(LastWordOf(t))
    IN Of(RStrip(s))

\* max(numeric): the first of the largest values
RECURSIVE MaxOf(_)
MaxOf(xs) ==
    IF Len(xs) = 1 THEN xs[1]
    ELSE LET rest == MaxOf(SubSeq(xs, 1, Len(xs) - 1))
         IN IF DecLess(rest, xs[Len(xs)]) THEN xs[Len(xs)] ELSE rest

\* the unknown marker of a spread: an em dash, one character
EmDash == <<"U+2014">>

\* lines 156-164: the spread of one row, or Raised (IndexError of split()[-1])
Spread(values, ordered_candidates) ==
    LET Text(winner, lead) ==
            IF winner = Raised THEN Raised
            ELSE PyStr(Replace(winner.val \o <<" ", "+">> \o Format1f(lead),
                               <<".", "0">>, <<>>))
        Sub(a, b, e) == Dec(a.m * 10^(e - a.e) - b.m * 10^(e - b.e), e)
        \* xs without its element at index i
        DropAt(xs, i) == SubSeq(xs, 1, i - 1) \o SubSeq(xs, i + 1, Len(xs))
        \* sorted_vals[0] - sorted_vals[1]
        Gap(a, b) == Sub(a, b, IF a.e > b.e THEN a.e ELSE b.e)
        Lead(numeric, max_val, winner_i) ==
            Text(LastWord(ordered_candidates[winner_i]),
                 Gap(max_val, MaxOf(DropAt(numeric, winner_i))))
        Winner(numeric, max_val) ==
            Lead(numeric, max_val, IndexOf(numeric, max_val))
        Of(numeric) ==
            IF (\A i \in 1..Len(numeric) : numeric[i] # None) /\ Len(numeric) >= 2
            THEN Winner(numeric, MaxOf(numeric))
            ELSE PyStr(EmDash)
    IN Of([i \in 1..Len(values) |-> as_float_percent(values[i])])

\* re.sub(r"\s*\(R\)\s*$", "", pollster).strip()
StripPartyTag(pollster) ==
    LET EndsWith(s, p) ==
            Len(s) >= Len(p) /\ SubSeq(s, Len(s) - Len(p) + 1, Len(s)) = p
        Cut(t) == IF EndsWith(t, <<"(", "R", ")">>)
                  THEN Strip(SubSeq(t, 1, Len(t) - Len(<<"(", "R", ")">>)))
                  ELSE Strip(pollster)
    IN Cut(RStrip(pollster))

Skip == [tag |-> "Skip"]

\* the body of the loop over the data rows: Skip for `continue`, Raised, or
\* the appended row
ParseRow(tr, headers, candidate_headers, ordered_candidates, notes, race_id) ==
    LET tds == SelectSeq(tr, LAMBDA c : c.kind = "td")
        n == Len(candidate_headers)
        \* notes.get(key, "")
        NotesGet(key) ==
            IF \E i \in 1..Len(notes) : notes[i].id = key
            THEN notes[CHOOSE i \in 1..Len(notes) : notes[i].id = key].url
            ELSE <<>>
        Url(ref) ==
            IF ref # <<>> /\ StartsWith(ref[1], <<"#">>)
            THEN NotesGet(Tail(ref[1]))
            ELSE <<>>
        Row(pollster, values, spread) ==
            IF pollster = <<>> THEN Skip
            ELSE IF race_id = <<"a", "l", "1", "_", "h", "o", "u", "s", "e",
                                "_", "g", "o", "p">>
                    /\ Contains(Join(<<" ">>, headers), <<"H", "e", "a",
                                                          "t", "h", "e",
                                                          "r", " ", "M",
                                                          "o", "o", "r",
                                                          "e">>)
                 THEN Skip
            ELSE IF spread = Raised THEN Raised
            ELSE [pollster |-> StripPartyTag(pollster),
                  pollster_url |-> Url(tds[1].refs),
                  date |-> clean_text(tds[2].text),
                  sample |-> clean_text(tds[3].text),
                  values |-> values,
                  spread |-> spread.val]
        WithValues(pollster, values) ==
            Row(pollster, values, Spread(values, ordered_candidates))
        \* raw_values = tds[4:4+n], reordered as ordered_candidates
        Values(raw_values) ==
            [i \in 1..Len(ordered_candidates) |->
               raw_values[IndexOf(candidate_headers, ordered_candidates[i])]]
    IN IF Len(tds) < 4 + n THEN Skip
       ELSE WithValues(clean_text(tds[1].text),
                       Values([i \in 1..n |-> clean_text(tds[4 + i].text)]))

\* the parsed table [headers, rows], or Raised when a row raises
parse_table(table, notes, target_candidates, race_id) ==
    LET FirstRows(rows) ==
            SubSeq(rows, 1, IF Len(rows) < VisibleRows
                            THEN Len(rows) ELSE VisibleRows)
        Result(ordered_candidates, outs) ==
            IF \E i \in 1..Len(outs) : outs[i] = Raised THEN Raised
            ELSE [headers |-> ordered_candidates,
                  rows |-> FirstRows(SelectSeq(outs, LAMBDA r : r # Skip))]
        Rows(headers, candidate_headers, ordered_candidates, trs) ==
            Result(ordered_candidates,
                   [i \in 1..Len(trs) |->
                      ParseRow(trs[i], headers, candidate_headers,
                               ordered_candidates, notes, race_id)])
        Ordered(headers, candidate_headers) ==
            Rows(headers, candidate_headers,
                 OrderedCandidates(target_candidates, candidate_headers),
                 DataRows(table.groups))
        WithHeaders(headers) == Ordered(headers, CandidateHeaders(headers))
    IN WithHeaders(TableHeaders(table))

----------------------------------------------------------------------------
(* find_table on short documents *)

\* most tables of a document handed to find_table
MaxTables == 2

\* a table of one row parent: a header row of th cells and the data rows
Table(class, headers, rows) ==
    [class |-> class,
     groups |-> << <<[i \in 1..Len(headers) |-> Th(headers[i])]>> \o rows >>]

DataRow(texts) == [i \in 1..Len(texts) |-> Td(texts[i])]

FindTables ==
    { \* a wikitable whose header holds Poll source, Date(s), A and B
      Table(<<"w", "i", "k", "i", "t", "a", "b", "l", "e">>, <<<<"P", "o",
                                                                 "l", "l",
                                                                 " ", "s",
                                                                 "o", "u",
                                                                 "r", "c",
                                                                 "e">>, <<"D",
                                                                          "a",
                                                                          "t",
                                                                          "e",
                                                                          "(",
                                                                          "s",
                                                                          ")",
                                                                          " ",
                                                                          "a",
                                                                          "d",
                                                                          "m",
                                                                          "i",
                                                                          "n",
                                                                          "i",
                                                                          "s",
                                                                          "t",
                                                                          "e",
                                                                          "r",
                                                                          "e",
                                                                          "d",
                                                                          "[",
                                                                          "a",
                                                                          "]">>, <<"A">>, <<"B">>>>,
            <<DataRow(<<<<"P", "1">>>>)>>),
      \* the same header on a table that is no wikitable
      Table(<<"s", "o", "r", "t", "a", "b", "l", "e">>, <<<<"P", "o", "l",
                                                            "l", " ", "s",
                                                            "o", "u", "r",
                                                            "c", "e">>, <<"D",
                                                                          "a",
                                                                          "t",
                                                                          "e",
                                                                          "(",
                                                                          "s",
                                                                          ")",
                                                                          " ",
                                                                          "a",
                                                                          "d",
                                                                          "m",
                                                                          "i",
                                                                          "n",
                                                                          "i",
                                                                          "s",
                                                                          "t",
                                                                          "e",
                                                                          "r",
                                                                          "e",
                                                                          "d",
                                                                          "[",
                                                                          "a",
                                                                          "]">>, <<"A">>, <<"B">>>>,
            <<DataRow(<<<<"P", "2">>>>)>>),
      \* a wikitable without the column A
      Table(<<"w", "i", "k", "i", "t", "a", "b", "l", "e">>, <<<<"P", "o",
                                                                 "l", "l",
                                                                 " ", "s",
                                                                 "o", "u",
                                                                 "r", "c",
                                                                 "e">>, <<"D",
                                                                          "a",
                                                                          "t",
                                                                          "e",
                                                                          "(",
                                                                          "s",
                                                                          ")",
                                                                          " ",
                                                                          "a",
                                                                          "d",
                                                                          "m",
                                                                          "i",
                                                                          "n",
                                                                          "i",
                                                                          "s",
                                                                          "t",
                                                                          "e",
                                                                          "r",
                                                                          "e",
                                                                          "d",
                                                                          "[",
                                                                          "a",
                                                                          "]">>, <<"B">>>>,
            <<DataRow(<<<<"P", "3">>>>)>>),
      \* every token, in another order, between other headers
      Table(<<"w", "i", "k", "i", "t", "a", "b", "l", "e", " ", "s", "o",
              "r", "t", "a", "b", "l", "e">>,
            <<<<"B">>, <<"O", "t", "h", "e", "r">>, <<"A">>, <<"D", "a",
                                                               "t", "e",
                                                               "(", "s",
                                                               ")", " ",
                                                               "a", "d",
                                                               "m", "i",
                                                               "n", "i",
                                                               "s", "t",
                                                               "e", "r",
                                                               "e", "d",
                                                               "[", "a",
                                                               "]">>, <<"P",
                                                                        "o",
                                                                        "l",
                                                                        "l",
                                                                        " ",
                                                                        "s",
                                                                        "o",
                                                                        "u",
                                                                        "r",
                                                                        "c",
                                                                        "e">>>>,
            <<DataRow(<<<<"P", "4">>>>)>>),
      \* a thead without A and a tbody whose first row has the th cell A
      [class |-> <<"w", "i", "k", "i", "t", "a", "b", "l", "e">>,
       groups |-> << << <<Th(<<"P", "o", "l", "l", " ", "s", "o", "u", "r",
                               "c", "e">>), Th(<<"D", "a", "t", "e", "(",
                                                 "s", ")", " ", "a", "d",
                                                 "m", "i", "n", "i", "s",
                                                 "t", "e", "r", "e", "d",
                                                 "[", "a", "]">>), Th(<<"B">>)>> >>,
                     << <<Th(<<"A">>), Td(<<"P", "5">>)>>, DataRow(<<<<"P",
                                                                       "6">>>>) >> >>],
      \* header texts in td cells: no header at all
      [class |-> <<"w", "i", "k", "i", "t", "a", "b", "l", "e">>,
       groups |-> << << DataRow(<<<<"P", "o", "l", "l", " ", "s", "o", "u",
                                    "r", "c", "e">>, <<"D", "a", "t", "e",
                                                       "(", "s", ")">>, <<"A">>, <<"B">>>>) >> >>] }

InitFind ==
    /\ pc = "call"
    /\ arg \in {[doc |-> [tables |-> ts, cites |-> <<>>], must_include |-> toks] :
                  ts \in UNION {[1..n -> FindTables] : n \in 0..MaxTables},
                  toks \in { <<<<"P", "o", "l", "l", " ", "s", "o", "u",
                                 "r", "c", "e">>, <<"D", "a", "t", "e", "(",
                                                    "s", ")">>, <<"A">>>>, <<<<"B">>, <<"P",
                                                                                        "o",
                                                                                        "l",
                                                                                        "l",
                                                                                        " ",
                                                                                        "s",
                                                                                        "o",
                                                                                        "u",
                                                                                        "r",
                                                                                        "c",
                                                                                        "e">>>>, <<<<"A">>>> }}
    /\ ret = None
    /\ IdleTracker /\ IdleRaceData

CallFindTable ==
    /\ pc = "call"
    /\ ret' = find_table(arg.doc, arg.must_include)
    /\ pc' = "done"
    /\ UNCHANGED <<arg, trackerVars, raceDataVars>>

SpecFind == InitFind /\ [][CallFindTable]_vars

\* the cleaned texts of the th cells of the first row of table t
FirstRowHeaders(t) ==
    LET row == IF t.groups = <<>> \/ t.groups[1] = <<>> THEN <<>>
               ELSE t.groups[1][1]
        cells == SelectSeq(row, LAMBDA c : c.kind = "th")
    IN [i \in 1..Len(cells) |-> clean_text(cells[i].text)]

\* some header of hs contains the token
SomeHeaderHolds(hs, tok) == \E i \in 1..Len(hs) : Contains(hs[i], tok)

\* the tables of the document whose first header row holds every token
HoldingTables(doc, toks) ==
    {i \in 1..Len(doc.tables) :
        \A k \in 1..Len(toks) : SomeHeaderHolds(FirstRowHeaders(doc.tables[i]), toks[k])}

\* the wikitables of the document whose header cells (the th cells of each row
\* that is the first of its parent) hold every token
HoldingWikitables(doc, toks) ==
    {i \in 1..Len(doc.tables) :
        /\ Contains(doc.tables[i].class, <<"w", "i", "k", "i", "t", "a",
                                           "b", "l", "e">>)
        /\ \A k \in 1..Len(toks) :
              Contains(Join(<<" ", "|", " ">>, TableHeaders(doc.tables[i])), toks[k])}

Least(I) == CHOOSE i \in I : \A j \in I : i <= j

\* C8 as stated: find_table returns the first table in document order whose
\* first header row contains every required token, and no table when none does.
C8_FirstOfAllTables ==
    pc = "done" =>
        LET M == HoldingTables(arg.doc, arg.must_include)
        IN IF M = {} THEN ret = None ELSE ret = arg.doc.tables[Least(M)]

\* C8 amended: find_table returns the first table of class wikitable whose
\* header cells, joined, contain every required token as a substring (any
\* order, extra headers allowed), never a table lacking a token, and None
\* when no wikitable matches.
C8_FirstWikitable ==
    pc = "done" =>
        LET M == HoldingWikitables(arg.doc, arg.must_include)
        IN IF M = {} THEN ret = None ELSE ret = arg.doc.tables[Least(M)]

\* a matching table that is no wikitable comes first and is passed over
C8_Witness ==
    /\ pc = "done"
    /\ Len(arg.doc.tables) = 2
    /\ arg.must_include = <<<<"P", "o", "l", "l", " ", "s", "o", "u", "r",
                              "c", "e">>, <<"D", "a", "t", "e", "(", "s",
                                            ")">>, <<"A">>>>
    /\ ~Contains(arg.doc.tables[1].class, <<"w", "i", "k", "i", "t", "a",
                                            "b", "l", "e">>)
    /\ 1 \in HoldingTables(arg.doc, arg.must_include)
    /\ ret = arg.doc.tables[2]

----------------------------------------------------------------------------
(* parse_table on one-row tables of every shape, and on chosen tables *)

\* most candidate columns of a generated table
MaxCandidateCols == 2

ParseArgs(table, target) ==
    [table |-> table, notes |-> <<>>, target_candidates |-> target,
     race_id |-> <<"u", "s", "_", "s", "e", "n", "a", "t", "e", "_", "g",
                   "o", "p">>]

\* the table of the end-to-end example: two columns before the candidates
ExampleArgs ==
    ParseArgs(Table(<<"w", "i", "k", "i", "t", "a", "b", "l", "e">>, <<<<"P",
                                                                         "o",
                                                                         "l",
                                                                         "l",
                                                                         " ",
                                                                         "s",
                                                                         "o",
                                                                         "u",
                                                                         "r",
                                                                         "c",
                                                                         "e">>, <<"D",
                                                                                  "a",
                                                                                  "t",
                                                                                  "e",
                                                                                  "(",
                                                                                  "s",
                                                                                  ")">>, <<"A">>, <<"B">>, <<"O",
                                                                                                             "t",
                                                                                                             "h",
                                                                                                             "e",
                                                                                                             "r">>>>,
                    <<DataRow(<<<<"P", "o", "l", "l", "s", "t", "e", "r",
                                  " ", "X">>, <<"1", "/", "1", "-", "1",
                                                "/", "2">>, <<"5", "0", "0",
                                                              " ", "L",
                                                              "V">>,
                                <<"4", "0">>, <<"3", "5">>, <<"5">>>>)>>),
              <<<<"A">>, <<"B">>>>)

\* the same poll in the layout of the source pages: four columns before the
\* candidates
ExampleArgs4 ==
    ParseArgs(Table(<<"w", "i", "k", "i", "t", "a", "b", "l", "e">>,
                    <<<<"P", "o", "l", "l", " ", "s", "o", "u", "r", "c",
                        "e">>, <<"D", "a", "t", "e", "(", "s", ")">>, <<"S",
                                                                        "a",
                                                                        "m",
                                                                        "p",
                                                                        "l",
                                                                        "e",
                                                                        " ",
                                                                        "s",
                                                                        "i",
                                                                        "z",
                                                                        "e">>, <<"M",
                                                                                 "a",
                                                                                 "r",
                                                                                 "g",
                                                                                 "i",
                                                                                 "n",
                                                                                 " ",
                                                                                 "o",
                                                                                 "f",
                                                                                 " ",
                                                                                 "e",
                                                                                 "r",
                                                                                 "r",
                                                                                 "o",
                                                                                 "r">>, <<"A">>, <<"B">>, <<"O",
                                                                                                            "t",
                                                                                                            "h",
                                                                                                            "e",
                                                                                                            "r">>>>,
                    <<DataRow(<<<<"P", "o", "l", "l", "s", "t", "e", "r",
                                  " ", "X">>, <<"1", "/", "1", "-", "1",
                                                "/", "2">>, <<"5", "0", "0",
                                                              " ", "L",
                                                              "V">>, <<"+",
                                                                       "-",
                                                                       "4",
                                                                       "%">>,
                                <<"4", "0">>, <<"3", "5">>, <<"5">>>>)>>),
              <<<<"A">>, <<"B">>>>)

\* a wikitable of four leading columns, the candidate columns cands, the
\* trailing columns tail, and one poll with the candidate cells vals
OnePollTable(cands, tail, vals) ==
    Table(<<"w", "i", "k", "i", "t", "a", "b", "l", "e">>,
          <<<<"P", "o", "l", "l", " ", "s", "o", "u", "r", "c", "e">>, <<"D",
                                                                         "a",
                                                                         "t",
                                                                         "e",
                                                                         "(",
                                                                         "s",
                                                                         ")",
                                                                         " ",
                                                                         "a",
                                                                         "d",
                                                                         "m",
                                                                         "i",
                                                                         "n",
                                                                         "i",
                                                                         "s",
                                                                         "t",
                                                                         "e",
                                                                         "r",
                                                                         "e",
                                                                         "d",
                                                                         "[",
                                                                         "a",
                                                                         "]">>, <<"S",
                                                                                  "a",
                                                                                  "m",
                                                                                  "p",
                                                                                  "l",
                                                                                  "e",
                                                                                  " ",
                                                                                  "s",
                                                                                  "i",
                                                                                  "z",
                                                                                  "e">>, <<"M",
                                                                                           "a",
                                                                                           "r",
                                                                                           "g",
                                                                                           "i",
                                                                                           "n",
                                                                                           " ",
                                                                                           "o",
                                                                                           "f",
                                                                                           " ",
                                                                                           "e",
                                                                                           "r",
                                                                                           "r",
                                                                                           "o",
                                                                                           "r">>>> \o cands \o tail,
          <<DataRow(<<<<"P", "o", "l", "l", "s", "t", "e", "r", " ", "X">>, <<"1",
                                                                              "/",
                                                                              "1",
                                                                              "-",
                                                                              "1",
                                                                              "/",
                                                                              "2">>, <<"5",
                                                                                       "0",
                                                                                       "0",
                                                                                       " ",
                                                                                       "L",
                                                                                       "V">>, <<"+",
                                                                                                "-",
                                                                                                "4",
                                                                                                "%">>>>
                    \o vals \o [i \in 1..Len(tail) |-> <<"5">>])>>)

\* every such table of up to MaxCandidateCols candidate columns
GeneratedParseArgs ==
    UNION { { ParseArgs(OnePollTable(cands, tail, vals), target) :
                cands \in [1..n -> {<<"A">>, <<"B">>, <<"C", "y", " ", "D",
                                                        "e", "e">>}],
                vals \in [1..n -> {<<"4", "0">>, <<"3", "5", ".", "5", "%">>, <<"n",
                                                                                "/",
                                                                                "a">>}],
                tail \in { <<>>, <<<<"O", "t", "h", "e", "r">>>> },
                target \in { <<<<"A">>, <<"B">>>>, <<<<"B">>, <<"A">>>>, <<<<"C",
                                                                             "y",
                                                                             " ",
                                                                             "D",
                                                                             "e",
                                                                             "e">>>> } } :
            n \in 0..MaxCandidateCols }

\* tables with rows the parser passes over, a cited pollster, a blank
\* header, a pollster in a th cell
ChosenParseArgs ==
    { \* ten polls: only the first eight are kept
      ParseArgs(Table(<<"w", "i", "k", "i", "t", "a", "b", "l", "e">>,
                      <<<<"P", "o", "l", "l", " ", "s", "o", "u", "r", "c",
                          "e">>, <<"D", "a", "t", "e", "(", "s", ")">>, <<"S",
                                                                          "a",
                                                                          "m",
                                                                          "p",
                                                                          "l",
                                                                          "e",
                                                                          " ",
                                                                          "s",
                                                                          "i",
                                                                          "z",
                                                                          "e">>, <<"M",
                                                                                   "a",
                                                                                   "r",
                                                                                   "g",
                                                                                   "i",
                                                                                   "n",
                                                                                   " ",
                                                                                   "o",
                                                                                   "f",
                                                                                   " ",
                                                                                   "e",
                                                                                   "r",
                                                                                   "r",
                                                                                   "o",
                                                                                   "r">>, <<"A">>, <<"B">>>>,
                      [i \in 1..10 |->
                         DataRow(<<<<"P", "o", "l", "l", "s", "t", "e", "r",
                                     " ", "X">> \o <<DigitChar(i - 1)>>, <<"1",
                                                                           "/",
                                                                           "1",
                                                                           "-",
                                                                           "1",
                                                                           "/",
                                                                           "2">>,
                                   <<"5", "0", "0", " ", "L", "V">>, <<"+",
                                                                       "-",
                                                                       "4",
                                                                       "%">>, <<"4",
                                                                                "0">>, <<"3",
                                                                                         "5">>>>)]),
                <<<<"A">>, <<"B">>>>),
      \* a short row, a row without pollster, a row led by a th cell
      ParseArgs(Table(<<"w", "i", "k", "i", "t", "a", "b", "l", "e">>,
                      <<<<"P", "o", "l", "l", " ", "s", "o", "u", "r", "c",
                          "e">>, <<"D", "a", "t", "e", "(", "s", ")">>, <<"S",
                                                                          "a",
                                                                          "m",
                                                                          "p",
                                                                          "l",
                                                                          "e",
                                                                          " ",
                                                                          "s",
                                                                          "i",
                                                                          "z",
                                                                          "e">>, <<"M",
                                                                                   "a",
                                                                                   "r",
                                                                                   "g",
                                                                                   "i",
                                                                                   "n",
                                                                                   " ",
                                                                                   "o",
                                                                                   "f",
                                                                                   " ",
                                                                                   "e",
                                                                                   "r",
                                                                                   "r",
                                                                                   "o",
                                                                                   "r">>, <<"A">>, <<"B">>>>,
                      << DataRow(<<<<"P", "o", "l", "l", "s", "t", "e", "r",
                                     " ", "X">>, <<"1", "/", "1", "-", "1",
                                                   "/", "2">>, <<"4", "0">>>>),
                         DataRow(<<<<" ", "[", "1", "]", " ">>, <<"1", "/",
                                                                  "1", "-",
                                                                  "1", "/",
                                                                  "2">>, <<"5",
                                                                           "0",
                                                                           "0",
                                                                           " ",
                                                                           "L",
                                                                           "V">>, <<"+",
                                                                                    "-",
                                                                                    "4",
                                                                                    "%">>,
                                   <<"4", "0">>, <<"3", "5">>>>),
                         <<Th(<<"P", "o", "l", "l", "s", "t", "e", "r", " ",
                                "X">>)>> \o
                         DataRow(<<<<"1", "/", "1", "-", "1", "/", "2">>, <<"5",
                                                                            "0",
                                                                            "0",
                                                                            " ",
                                                                            "L",
                                                                            "V">>, <<"+",
                                                                                     "-",
                                                                                     "4",
                                                                                     "%">>, <<"4",
                                                                                              "0">>, <<"3",
                                                                                                       "5">>>>),
                         DataRow(<<<<"P", "o", "l", "l", "s", "t", "e", "r",
                                     " ", "Y", " ", "(", "R", ")">>, <<"1",
                                                                       "/",
                                                                       "1",
                                                                       "-",
                                                                       "1",
                                                                       "/",
                                                                       "2">>, <<"5",
                                                                                "0",
                                                                                "0",
                                                                                " ",
                                                                                "L",
                                                                                "V">>,
                                   <<"+", "-", "4", "%">>, <<"3", "5">>, <<"4",
                                                                           "0">>>>) >>),
                <<<<"B">>, <<"A">>>>),
      \* a cited pollster
      [table |-> Table(<<"w", "i", "k", "i", "t", "a", "b", "l", "e">>,
                       <<<<"P", "o", "l", "l", " ", "s", "o", "u", "r", "c",
                           "e">>, <<"D", "a", "t", "e", "(", "s", ")">>, <<"S",
                                                                           "a",
                                                                           "m",
                                                                           "p",
                                                                           "l",
                                                                           "e",
                                                                           " ",
                                                                           "s",
                                                                           "i",
                                                                           "z",
                                                                           "e">>, <<"M",
                                                                                    "a",
                                                                                    "r",
                                                                                    "g",
                                                                                    "i",
                                                                                    "n",
                                                                                    " ",
                                                                                    "o",
                                                                                    "f",
                                                                                    " ",
                                                                                    "e",
                                                                                    "r",
                                                                                    "r",
                                                                                    "o",
                                                                                    "r">>, <<"A">>, <<"B">>>>,
                       << <<[kind |-> "td", text |-> <<"P", "o", "l", "l",
                                                       "s", "t", "e", "r",
                                                       " ", " ", "Z", "[",
                                                       "1", "]">>,
                             refs |-> << <<"#">> \o <<"c", "i", "t", "e",
                                                      "_", "n", "o", "t",
                                                      "e", "-", "1">> >>]>> \o
                          DataRow(<<<<"1", "/", "1", "-", "1", "/", "2">>, <<"5",
                                                                             "0",
                                                                             "0",
                                                                             " ",
                                                                             "L",
                                                                             "V">>, <<"+",
                                                                                      "-",
                                                                                      "4",
                                                                                      "%">>,
                                    <<"3", "5">>, <<"4", "0">>>>) >>),
       notes |-> extract_notes(<<[id |-> <<"c", "i", "t", "e", "_", "n",
                                           "o", "t", "e", "-", "1">>,
                                  links |-> <<<<"#", "t", "o", "p">>, <<"h",
                                                                        "t",
                                                                        "t",
                                                                        "p",
                                                                        "s",
                                                                        ":",
                                                                        "/",
                                                                        "/",
                                                                        "e",
                                                                        "x",
                                                                        "a",
                                                                        "m",
                                                                        "p",
                                                                        "l",
                                                                        "e",
                                                                        ".",
                                                                        "o",
                                                                        "r",
                                                                        "g",
                                                                        "/",
                                                                        "p",
                                                                        "o",
                                                                        "l",
                                                                        "l">>>>]>>),
       target_candidates |-> <<<<"A">>, <<"B">>>>,
       race_id |-> <<"u", "s", "_", "s", "e", "n", "a", "t", "e", "_", "g",
                     "o", "p">>],
      \* a candidate column whose header is only a citation mark
      ParseArgs(OnePollTable(<<<<"[", "b", "]">>, <<"A">>>>, <<<<"O", "t",
                                                                 "h", "e",
                                                                 "r">>>>, <<<<"4",
                                                                              "0">>, <<"3",
                                                                                       "5">>>>),
                <<<<"A">>, <<"B">>>>),
      \* a poll whose pollster cell is a th cell, before a trailing column
      ParseArgs(Table(<<"w", "i", "k", "i", "t", "a", "b", "l", "e">>,
                      <<<<"P", "o", "l", "l", " ", "s", "o", "u", "r", "c",
                          "e">>, <<"D", "a", "t", "e", "(", "s", ")">>, <<"S",
                                                                          "a",
                                                                          "m",
                                                                          "p",
                                                                          "l",
                                                                          "e",
                                                                          " ",
                                                                          "s",
                                                                          "i",
                                                                          "z",
                                                                          "e">>, <<"M",
                                                                                   "a",
                                                                                   "r",
                                                                                   "g",
                                                                                   "i",
                                                                                   "n",
                                                                                   " ",
                                                                                   "o",
                                                                                   "f",
                                                                                   " ",
                                                                                   "e",
                                                                                   "r",
                                                                                   "r",
                                                                                   "o",
                                                                                   "r">>, <<"A">>, <<"B">>, <<"O",
                                                                                                              "t",
                                                                                                              "h",
                                                                                                              "e",
                                                                                                              "r">>>>,
                      << <<Th(<<"P", "o", "l", "l", "s", "t", "e", "r", " ",
                                "X">>)>> \o
                         DataRow(<<<<"1", "/", "1", "-", "1", "/", "2">>, <<"5",
                                                                            "0",
                                                                            "0",
                                                                            " ",
                                                                            "L",
                                                                            "V">>, <<"+",
                                                                                     "-",
                                                                                     "4",
                                                                                     "%">>,
                                   <<"4", "0">>, <<"3", "5">>, <<"5">>>>) >>),
                <<<<"B">>, <<"A">>>>),
      \* the excluded AL-1 table
      [table |-> OnePollTable(<<<<"A">>, <<"H", "e", "a", "t", "h", "e",
                                           "r", " ", "M", "o", "o", "r",
                                           "e">>>>, <<>>, <<<<"4", "0">>, <<"3",
                                                                            "5">>>>),
       notes |-> <<>>,
       target_candidates |-> <<<<"A">>>>,
       race_id |-> <<"a", "l", "1", "_", "h", "o", "u", "s", "e", "_", "g",
                     "o", "p">>] }

InitParse ==
    /\ pc = "call"
    /\ arg \in {ExampleArgs, ExampleArgs4} \cup GeneratedParseArgs \cup ChosenParseArgs
    /\ ret = None
    /\ IdleTracker /\ IdleRaceData

CallParseTable ==
    /\ pc = "call"
    /\ ret' = parse_table(arg.table, arg.notes, arg.target_candidates, arg.race_id)
    /\ pc' = "done"
    /\ UNCHANGED <<arg, trackerVars, raceDataVars>>

SpecParse == InitParse /\ [][CallParseTable]_vars

\* the call returned one parsed row with these values and this spread
OneRowWith(r, values, spread) ==
    /\ r # Raised
    /\ Len(r.rows) = 1
    /\ r.rows[1].values = values
    /\ r.rows[1].spread = spread

\* C1 as stated: the table with header [Poll source, Date(s), A, B, Other] and
\* the row [Pollster X, 1/1-1/2, 500 LV, 40, 35, 5], candidates A and B, gives
\* one parsed row with values [40, 35] and spread "A +5".
C1_ExampleAsStated ==
    (pc = "done" /\ arg = ExampleArgs) => OneRowWith(ret, <<<<"4", "0">>, <<"3",
                                                                            "5">>>>, <<"A",
                                                                                       " ",
                                                                                       "+",
                                                                                       "5">>)

\* C1 amended: candidate columns are read from the fifth header and the fifth
\* cell on.  The stated table, whose fifth header is Other, gives one parsed
\* row with no values and the unknown spread; the same poll under the header
\* [Poll source, Date(s), Sample size, Margin of error, A, B, Other] with the
\* row [Pollster X, 1/1-1/2, 500 LV, +-4%, 40, 35, 5] gives one parsed row with
\* values [40, 35] and spread "A +5".
C1_ExampleFourLeadingColumns ==
    /\ (pc = "done" /\ arg = ExampleArgs) => OneRowWith(ret, <<>>, EmDash)
    /\ (pc = "done" /\ arg = ExampleArgs4) =>
           OneRowWith(ret, <<<<"4", "0">>, <<"3", "5">>>>, <<"A", " ", "+",
                                                             "5">>)

\* the four-column example has been parsed
C1_Witness ==
    /\ pc = "done"
    /\ arg = ExampleArgs4
    /\ ret # Raised
    /\ ret.headers = <<<<"A">>, <<"B">>>>
    /\ ret.rows[1].spread = <<"A", " ", "+", "5">>

----------------------------------------------------------------------------
(* update_alabama_tracker.py: configuration *)

PRIMARY_DAY == <<"2", "0", "2", "6", "-", "0", "5", "-", "1", "9">>

RACES ==
    << [id |-> <<"u", "s", "_", "s", "e", "n", "a", "t", "e", "_", "g", "o",
                 "p">>,
        name |-> <<"U", ".", "S", ".", " ", "S", "e", "n", "a", "t", "e",
                   " ", "(", "R", "e", "p", "u", "b", "l", "i", "c", "a",
                   "n", " ", "P", "r", "i", "m", "a", "r", "y", ")">>,
        headers_must_include |->
            <<<<"P", "o", "l", "l", " ", "s", "o", "u", "r", "c", "e">>, <<"D",
                                                                           "a",
                                                                           "t",
                                                                           "e",
                                                                           "(",
                                                                           "s",
                                                                           ")">>, <<"J",
                                                                                    "a",
                                                                                    "r",
                                                                                    "e",
                                                                                    "d",
                                                                                    " ",
                                                                                    "H",
                                                                                    "u",
                                                                                    "d",
                                                                                    "s",
                                                                                    "o",
                                                                                    "n">>, <<"S",
                                                                                             "t",
                                                                                             "e",
                                                                                             "v",
                                                                                             "e",
                                                                                             " ",
                                                                                             "M",
                                                                                             "a",
                                                                                             "r",
                                                                                             "s",
                                                                                             "h",
                                                                                             "a",
                                                                                             "l",
                                                                                             "l">>, <<"B",
                                                                                                      "a",
                                                                                                      "r",
                                                                                                      "r",
                                                                                                      "y",
                                                                                                      " ",
                                                                                                      "M",
                                                                                                      "o",
                                                                                                      "o",
                                                                                                      "r",
                                                                                                      "e">>>>,
        candidates |-> <<<<"S", "t", "e", "v", "e", " ", "M", "a", "r", "s",
                           "h", "a", "l", "l">>, <<"B", "a", "r", "r", "y",
                                                   " ", "M", "o", "o", "r",
                                                   "e">>, <<"J", "a", "r",
                                                            "e", "d", " ",
                                                            "H", "u", "d",
                                                            "s", "o", "n">>>>],
       [id |-> <<"g", "o", "v", "e", "r", "n", "o", "r", "_", "g", "o",
                 "p">>,
        name |-> <<"G", "o", "v", "e", "r", "n", "o", "r", " ", "(", "R",
                   "e", "p", "u", "b", "l", "i", "c", "a", "n", " ", "P",
                   "r", "i", "m", "a", "r", "y", ")">>,
        headers_must_include |->
            <<<<"P", "o", "l", "l", " ", "s", "o", "u", "r", "c", "e">>, <<"D",
                                                                           "a",
                                                                           "t",
                                                                           "e",
                                                                           "(",
                                                                           "s",
                                                                           ")">>, <<"K",
                                                                                    "e",
                                                                                    "n",
                                                                                    " ",
                                                                                    "M",
                                                                                    "c",
                                                                                    "F",
                                                                                    "e",
                                                                                    "e",
                                                                                    "t",
                                                                                    "e",
                                                                                    "r",
                                                                                    "s">>, <<"T",
                                                                                             "o",
                                                                                             "m",
                                                                                             "m",
                                                                                             "y",
                                                                                             " ",
                                                                                             "T",
                                                                                             "u",
                                                                                             "b",
                                                                                             "e",
                                                                                             "r",
                                                                                             "v",
                                                                                             "i",
                                                                                             "l",
                                                                                             "l",
                                                                                             "e">>>>,
        candidates |-> <<<<"T", "o", "m", "m", "y", " ", "T", "u", "b", "e",
                           "r", "v", "i", "l", "l", "e">>, <<"K", "e", "n",
                                                             " ", "M", "c",
                                                             "F", "e", "e",
                                                             "t", "e", "r",
                                                             "s">>>>],
       [id |-> <<"l", "t", "_", "g", "o", "v", "e", "r", "n", "o", "r", "_",
                 "g", "o", "p">>,
        name |-> <<"L", "i", "e", "u", "t", "e", "n", "a", "n", "t", " ",
                   "G", "o", "v", "e", "r", "n", "o", "r", " ", "(", "R",
                   "e", "p", "u", "b", "l", "i", "c", "a", "n", " ", "P",
                   "r", "i", "m", "a", "r", "y", ")">>,
        headers_must_include |->
            <<<<"P", "o", "l", "l", " ", "s", "o", "u", "r", "c", "e">>, <<"D",
                                                                           "a",
                                                                           "t",
                                                                           "e",
                                                                           "(",
                                                                           "s",
                                                                           ")">>, <<"W",
                                                                                    "e",
                                                                                    "s",
                                                                                    " ",
                                                                                    "A",
                                                                                    "l",
                                                                                    "l",
                                                                                    "e",
                                                                                    "n">>, <<"A",
                                                                                             ".",
                                                                                             "J",
                                                                                             ".",
                                                                                             " ",
                                                                                             "M",
                                                                                             "c",
                                                                                             "C",
                                                                                             "a",
                                                                                             "r",
                                                                                             "r",
                                                                                             "o",
                                                                                             "n">>, <<"R",
                                                                                                      "i",
                                                                                                      "c",
                                                                                                      "k",
                                                                                                      " ",
                                                                                                      "P",
                                                                                                      "a",
                                                                                                      "t",
                                                                                                      "e">>>>,
        candidates |-> <<<<"W", "e", "s", " ", "A", "l", "l", "e", "n">>, <<"A",
                                                                            ".",
                                                                            "J",
                                                                            ".",
                                                                            " ",
                                                                            "M",
                                                                            "c",
                                                                            "C",
                                                                            "a",
                                                                            "r",
                                                                            "r",
                                                                            "o",
                                                                            "n">>, <<"R",
                                                                                     "i",
                                                                                     "c",
                                                                                     "k",
                                                                                     " ",
                                                                                     "P",
                                                                                     "a",
                                                                                     "t",
                                                                                     "e">>,
                         <<"N", "i", "c", "o", "l", "e", " ", "W", "a", "d",
                           "s", "w", "o", "r", "t", "h">>, <<"J", "o", "h",
                                                             "n", " ", "W",
                                                             "a", "h", "l">>>>],
       [id |-> <<"a", "t", "t", "o", "r", "n", "e", "y", "_", "g", "e", "n",
                 "e", "r", "a", "l", "_", "g", "o", "p">>,
        name |-> <<"A", "t", "t", "o", "r", "n", "e", "y", " ", "G", "e",
                   "n", "e", "r", "a", "l", " ", "(", "R", "e", "p", "u",
                   "b", "l", "i", "c", "a", "n", " ", "P", "r", "i", "m",
                   "a", "r", "y", ")">>,
        headers_must_include |->
            <<<<"P", "o", "l", "l", " ", "s", "o", "u", "r", "c", "e">>, <<"D",
                                                                           "a",
                                                                           "t",
                                                                           "e",
                                                                           "(",
                                                                           "s",
                                                                           ")">>, <<"P",
                                                                                    "a",
                                                                                    "m",
                                                                                    "e",
                                                                                    "l",
                                                                                    "a",
                                                                                    " ",
                                                                                    "C",
                                                                                    "a",
                                                                                    "s",
                                                                                    "e",
                                                                                    "y">>, <<"J",
                                                                                             "a",
                                                                                             "y",
                                                                                             " ",
                                                                                             "M",
                                                                                             "i",
                                                                                             "t",
                                                                                             "c",
                                                                                             "h",
                                                                                             "e",
                                                                                             "l",
                                                                                             "l">>, <<"K",
                                                                                                      "a",
                                                                                                      "t",
                                                                                                      "h",
                                                                                                      "e",
                                                                                                      "r",
                                                                                                      "i",
                                                                                                      "n",
                                                                                                      "e",
                                                                                                      " ",
                                                                                                      "R",
                                                                                                      "o",
                                                                                                      "b",
                                                                                                      "e",
                                                                                                      "r",
                                                                                                      "t",
                                                                                                      "s",
                                                                                                      "o",
                                                                                                      "n">>>>,
        candidates |-> <<<<"J", "a", "y", " ", "M", "i", "t", "c", "h", "e",
                           "l", "l">>, <<"K", "a", "t", "h", "e", "r", "i",
                                         "n", "e", " ", "R", "o", "b", "e",
                                         "r", "t", "s", "o", "n">>, <<"P",
                                                                      "a",
                                                                      "m",
                                                                      "e",
                                                                      "l",
                                                                      "a",
                                                                      " ",
                                                                      "C",
                                                                      "a",
                                                                      "s",
                                                                      "e",
                                                                      "y">>>>],
       [id |-> <<"s", "e", "c", "r", "e", "t", "a", "r", "y", "_", "o", "f",
                 "_", "s", "t", "a", "t", "e", "_", "g", "o", "p">>,
        name |-> <<"S", "e", "c", "r", "e", "t", "a", "r", "y", " ", "o",
                   "f", " ", "S", "t", "a", "t", "e", " ", "(", "R", "e",
                   "p", "u", "b", "l", "i", "c", "a", "n", " ", "P", "r",
                   "i", "m", "a", "r", "y", ")">>,
        headers_must_include |->
            <<<<"P", "o", "l", "l", " ", "s", "o", "u", "r", "c", "e">>, <<"D",
                                                                           "a",
                                                                           "t",
                                                                           "e",
                                                                           "(",
                                                                           "s",
                                                                           ")">>, <<"C",
                                                                                    "a",
                                                                                    "r",
                                                                                    "o",
                                                                                    "l",
                                                                                    "e",
                                                                                    "e",
                                                                                    "n",
                                                                                    "e",
                                                                                    " ",
                                                                                    "D",
                                                                                    "o",
                                                                                    "b",
                                                                                    "s",
                                                                                    "o",
                                                                                    "n">>, <<"A",
                                                                                             "n",
                                                                                             "d",
                                                                                             "r",
                                                                                             "e",
                                                                                             "w",
                                                                                             " ",
                                                                                             "S",
                                                                                             "o",
                                                                                             "r",
                                                                                             "r",
                                                                                             "e",
                                                                                             "l",
                                                                                             "l">>>>,
        candidates |-> <<<<"A", "n", "d", "r", "e", "w", " ", "S", "o", "r",
                           "r", "e", "l", "l">>, <<"C", "a", "r", "o", "l",
                                                   "e", "e", "n", "e", " ",
                                                   "D", "o", "b", "s", "o",
                                                   "n">>>>],
       [id |-> <<"a", "l", "1", "_", "h", "o", "u", "s", "e", "_", "g", "o",
                 "p">>,
        name |-> <<"A", "L", "-", "1", " ", "C", "o", "n", "g", "r", "e",
                   "s", "s", "i", "o", "n", "a", "l", " ", "D", "i", "s",
                   "t", "r", "i", "c", "t", " ", "(", "R", "e", "p", "u",
                   "b", "l", "i", "c", "a", "n", " ", "P", "r", "i", "m",
                   "a", "r", "y", ")">>,
        headers_must_include |->
            <<<<"P", "o", "l", "l", " ", "s", "o", "u", "r", "c", "e">>, <<"D",
                                                                           "a",
                                                                           "t",
                                                                           "e",
                                                                           "(",
                                                                           "s",
                                                                           ")">>, <<"J",
                                                                                    "e",
                                                                                    "r",
                                                                                    "r",
                                                                                    "y",
                                                                                    " ",
                                                                                    "C",
                                                                                    "a",
                                                                                    "r",
                                                                                    "l">>, <<"R",
                                                                                             "h",
                                                                                             "e",
                                                                                             "t",
                                                                                             "t",
                                                                                             " ",
                                                                                             "M",
                                                                                             "a",
                                                                                             "r",
                                                                                             "q",
                                                                                             "u",
                                                                                             "e",
                                                                                             "s">>>>,
        candidates |-> <<<<"J", "e", "r", "r", "y", " ", "C", "a", "r",
                           "l">>, <<"R", "h", "e", "t", "t", " ", "M", "a",
                                    "r", "q", "u", "e", "s">>, <<"J", "i",
                                                                 "m", "m",
                                                                 "y", " ",
                                                                 "D", "e",
                                                                 "e", "s">>,
                         <<"J", "o", "s", "h", "u", "a", " ", "M", "c", "K",
                           "e", "e">>, <<"J", "o", "h", "n", " ", "M", "i",
                                         "l", "l", "s">>,
                         <<"J", "a", "m", "e", "s", " ", "R", "i", "c", "h",
                           "a", "r", "d", "s", "o", "n">>, <<"A", "u", "s",
                                                             "t", "i", "n",
                                                             " ", "S", "i",
                                                             "d", "w", "e",
                                                             "l", "l">>>>] >>

----------------------------------------------------------------------------
(* update_alabama_tracker.py: build_snapshot, format_display_name *)

\* the majority threshold of build_snapshot
MajorityThreshold == 50

\* the last index of a largest value
LastArgMax(vals) ==
    CHOOSE i \in 1..Len(vals) :
      vals[i] = MaxOf(vals) /\ \A j \in (i + 1)..Len(vals) : vals[j] # MaxOf(vals)

\* max(range(len(vals)), key=lambda i: vals[i]): the first index of a largest value
ArgMax(vals) == IndexOf(vals, MaxOf(vals))

\* the list of bullets, or Raised (max() of an empty list)
build_snapshot(race_name, headers, rows) ==
    LET Lead(first, vals, allnum) ==
            IF allnum /\ Len(vals) >= 2
            THEN <<headers[ArgMax(vals)]
                   \o <<" ", "l", "e", "a", "d", "s", " ", "t", "h", "e",
                        " ", "m", "o", "s", "t", " ", "r", "e", "c", "e",
                        "n", "t", " ", "p", "u", "b", "l", "i", "s", "h",
                        "e", "d", " ", "p", "o", "l", "l", " ", "r", "o",
                        "w", " ", "(">>
                   \o first.spread \o <<")", ".">>>>
            ELSE <<<<"T", "h", "e", " ", "m", "o", "s", "t", " ", "r", "e",
                     "c", "e", "n", "t", " ", "p", "o", "l", "l", " ", "r",
                     "o", "w", " ", "s", "h", "o", "w", "s", " ", "a", " ",
                     "f", "r", "a", "g", "m", "e", "n", "t", "e", "d", " ",
                     "f", "i", "e", "l", "d", " ", "w", "i", "t", "h", " ",
                     "n", "o", " ", "c", "l", "e", "a", "r", " ", "m", "a",
                     "j", "o", "r", "i", "t", "y", ".">>>>
        Second ==
            IF Len(rows) > 1
            THEN <<<<"N", "e", "x", "t", "-", "m", "o", "s", "t", "-", "r",
                     "e", "c", "e", "n", "t", " ", "r", "o", "w", " ", "i",
                     "s", " ">> \o rows[2].pollster
                   \o <<" ", "(">> \o rows[2].date \o <<",", " ">>
                   \o rows[2].sample \o <<")", ".">>>>
            ELSE <<>>
        Majority(vals, allnum) ==
            IF allnum /\ DecLess(MaxOf(vals), [m |-> MajorityThreshold, e |-> 0])
            THEN <<<<"N", "o", " ", "c", "a", "n", "d", "i", "d", "a", "t",
                     "e", " ", "i", "s", " ", "n", "e", "a", "r", " ", "a",
                     "n", " ", "o", "u", "t", "r", "i", "g", "h", "t", " ",
                     "m", "a", "j", "o", "r", "i", "t", "y", " ", "i", "n",
                     " ", "r", "e", "c", "e", "n", "t", " ", "t", "o", "p",
                     "l", "i", "n", "e", "s", ",", " ", "k", "e", "e", "p",
                     "i", "n", "g", " ", "r", "u", "n", "o", "f", "f", " ",
                     "d", "y", "n", "a", "m", "i", "c", "s", " ", "r", "e",
                     "l", "e", "v", "a", "n", "t", ".">>>>
            ELSE <<<<"R", "e", "c", "e", "n", "t", " ", "t", "o", "p", "l",
                     "i", "n", "e", "s", " ", "s", "h", "o", "w", " ", "a",
                     " ", "c", "l", "e", "a", "r", " ", "f", "r", "o", "n",
                     "t", "-", "r", "u", "n", "n", "e", "r", " ", "a", "d",
                     "v", "a", "n", "t", "a", "g", "e", ".">>>>
        Bullets(first, vals, allnum) ==
            IF allnum /\ vals = <<>> THEN Raised
            ELSE [tag |-> "list",
                  val |-> Lead(first, vals, allnum) \o Second
                          \o Majority(vals, allnum)]
        Of(first, vals) ==
            Bullets(first, vals, \A i \in 1..Len(vals) : vals[i] # None)
        First(first) ==
            Of(first, [i \in 1..Len(first.values) |->
                         as_float_percent(first.values[i])])
    IN IF rows = <<>>
       THEN [tag |-> "list",
             val |-> <<<<"N", "o", " ", "c", "u", "r", "r", "e", "n", "t",
                         "l", "y", " ", "p", "u", "b", "l", "i", "s", "h",
                         "e", "d", " ", "p", "o", "l", "l", "i", "n", "g",
                         " ", "t", "a", "b", "l", "e", " ", "w", "a", "s",
                         " ", "f", "o", "u", "n", "d", " ", "f", "o", "r",
                         " ">>
                       \o race_name \o <<".">>>>]
       ELSE First(rows[1])

\* the display form as a str value, or Raised (split()[-1] of a blank name)
format_display_name(name) ==
    LET Lookup(names) ==
            IF \E i \in 1..Len(names) : names[i][1] = name
            THEN PyStr(names[CHOOSE i \in 1..Len(names) : names[i][1] = name][2])
            ELSE LastWord(name)
    IN Lookup(
    << <<<<"A", ".", "J", ".", " ", "M", "c", "C", "a", "r", "r", "o", "n">>, <<"M",
                                                                                "c",
                                                                                "C",
                                                                                "a",
                                                                                "r",
                                                                                "r",
                                                                                "o",
                                                                                "n">>>>,
       <<<<"S", "t", "e", "v", "e", " ", "M", "a", "r", "s", "h", "a", "l",
           "l">>, <<"M", "a", "r", "s", "h", "a", "l", "l">>>>,
       <<<<"B", "a", "r", "r", "y", " ", "M", "o", "o", "r", "e">>, <<"M",
                                                                      "o",
                                                                      "o",
                                                                      "r",
                                                                      "e">>>>,
       <<<<"J", "a", "r", "e", "d", " ", "H", "u", "d", "s", "o", "n">>, <<"H",
                                                                           "u",
                                                                           "d",
                                                                           "s",
                                                                           "o",
                                                                           "n">>>>,
       <<<<"T", "o", "m", "m", "y", " ", "T", "u", "b", "e", "r", "v", "i",
           "l", "l", "e">>, <<"T", "u", "b", "e", "r", "v", "i", "l", "l",
                              "e">>>>,
       <<<<"K", "e", "n", " ", "M", "c", "F", "e", "e", "t", "e", "r", "s">>, <<"M",
                                                                                "c",
                                                                                "F",
                                                                                "e",
                                                                                "e",
                                                                                "t",
                                                                                "e",
                                                                                "r",
                                                                                "s">>>>,
       <<<<"J", "a", "y", " ", "M", "i", "t", "c", "h", "e", "l", "l">>, <<"M",
                                                                           "i",
                                                                           "t",
                                                                           "c",
                                                                           "h",
                                                                           "e",
                                                                           "l",
                                                                           "l">>>>,
       <<<<"K", "a", "t", "h", "e", "r", "i", "n", "e", " ", "R", "o", "b",
           "e", "r", "t", "s", "o", "n">>, <<"R", "o", "b", "e", "r", "t",
                                             "s", "o", "n">>>>,
       <<<<"P", "a", "m", "e", "l", "a", " ", "C", "a", "s", "e", "y">>, <<"C",
                                                                           "a",
                                                                           "s",
                                                                           "e",
                                                                           "y">>>>,
       <<<<"A", "n", "d", "r", "e", "w", " ", "S", "o", "r", "r", "e", "l",
           "l">>, <<"S", "o", "r", "r", "e", "l", "l">>>>,
       <<<<"C", "a", "r", "o", "l", "e", "e", "n", "e", " ", "D", "o", "b",
           "s", "o", "n">>, <<"D", "o", "b", "s", "o", "n">>>>,
       <<<<"J", "e", "r", "r", "y", " ", "C", "a", "r", "l">>, <<"C", "a",
                                                                 "r", "l">>>>,
       <<<<"R", "h", "e", "t", "t", " ", "M", "a", "r", "q", "u", "e", "s">>, <<"M",
                                                                                "a",
                                                                                "r",
                                                                                "q",
                                                                                "u",
                                                                                "e",
                                                                                "s">>>> >>)

----------------------------------------------------------------------------
(* update_alabama_tracker.py: build_race_entry, main                       *)
(*                                                                         *)
(* The answer of the page API to fetch_json is Raised (the request or the  *)
(* JSON decoding fails) or [tag |-> "json", shape, doc]: shape "notdict"   *)
(* (a JSON value without .get), "notext" (no parse.text, or an empty one), *)
(* "badhtml" (text lxml cannot parse) or "html" with the parsed document.  *)

EmptyEntry(defn, line) ==
    [id |-> defn.id, name |-> defn.name, snapshot |-> <<line>>,
     columns |-> <<>>, polls |-> <<>>]

\* the entry of one race, or Raised
build_race_entry(defn, raw) ==
    LET Entry(parsed, columns, snapshot) ==
            IF \E i \in 1..Len(columns) : columns[i] = Raised THEN Raised
            ELSE IF snapshot = Raised THEN Raised
            ELSE [id |-> defn.id,
                  name |-> defn.name,
                  snapshot |-> snapshot.val,
                  columns |-> [i \in 1..Len(columns) |-> columns[i].val],
                  polls |-> parsed.rows]
        Parsed(parsed) ==
            IF parsed = Raised THEN Raised
            ELSE Entry(parsed,
                       [i \in 1..Len(parsed.headers) |->
                          format_display_name(parsed.headers[i])],
                       build_snapshot(defn.name, parsed.headers, parsed.rows))
        Found(table, notes) ==
            IF table = None THEN EmptyEntry(defn, <<"P", "o", "l", "l", "i",
                                                    "n", "g", " ", "t", "a",
                                                    "b", "l", "e", " ", "n",
                                                    "o", "t", " ", "f", "o",
                                                    "u", "n", "d", " ", "f",
                                                    "o", "r", " ", "t", "h",
                                                    "i", "s", " ", "r", "a",
                                                    "c", "e", " ", "o", "n",
                                                    " ", "t", "h", "e", " ",
                                                    "s", "o", "u", "r", "c",
                                                    "e", " ", "p", "a", "g",
                                                    "e", ".">>)
            ELSE Parsed(parse_table(table, notes, defn.candidates, defn.id))
        Doc(doc) ==
            Found(find_table(doc, defn.headers_must_include),
                  extract_notes(doc.cites))
    IN IF raw = Raised \/ raw.shape = "notdict" THEN Raised
       ELSE IF raw.shape = "notext" THEN EmptyEntry(defn, <<"P", "o", "l",
                                                            "l", "i", "n",
                                                            "g", " ", "d",
                                                            "a", "t", "a",
                                                            " ", "i", "s",
                                                            " ", "n", "o",
                                                            "t", " ", "c",
                                                            "u", "r", "r",
                                                            "e", "n", "t",
                                                            "l", "y", " ",
                                                            "a", "v", "a",
                                                            "i", "l", "a",
                                                            "b", "l", "e",
                                                            " ", "f", "r",
                                                            "o", "m", " ",
                                                            "t", "h", "e",
                                                            " ", "c", "o",
                                                            "n", "f", "i",
                                                            "g", "u", "r",
                                                            "e", "d", " ",
                                                            "s", "o", "u",
                                                            "r", "c", "e",
                                                            ".">>)
       ELSE IF raw.shape = "badhtml" THEN Raised
       ELSE Doc(raw.doc)

\* a loop body without the except clause: the exception leaves main
RaceEntryUnguarded(race, raw) == build_race_entry(race, raw)

\* lines 286-297: the try and its except clause
RaceEntryOrFallback(race, raw) ==
    LET Guarded(entry) ==
            IF entry = Raised THEN EmptyEntry(race, <<"U", "n", "a", "b",
                                                      "l", "e", " ", "t",
                                                      "o", " ", "l", "o",
                                                      "a", "d", " ", "t",
                                                      "h", "i", "s", " ",
                                                      "r", "a", "c", "e",
                                                      " ", "i", "n", " ",
                                                      "t", "h", "e", " ",
                                                      "c", "u", "r", "r",
                                                      "e", "n", "t", " ",
                                                      "r", "e", "f", "r",
                                                      "e", "s", "h", ".">>)
            ELSE entry
    IN Guarded(build_race_entry(race, raw))

----------------------------------------------------------------------------
(* The pages a race may be answered with *)

\* the candidate cells of the two sample polls
PollValues ==
    << <<<<"3", "8", "%">>, <<"4", "1">>, <<"9", ".", "5">>>>, <<<<"4",
                                                                   "4">>, <<"n",
                                                                            "/",
                                                                            "a">>, <<"1",
                                                                                     "1">>>> >>

LeadHeaders == <<<<"P", "o", "l", "l", " ", "s", "o", "u", "r", "c", "e">>, <<"D",
                                                                              "a",
                                                                              "t",
                                                                              "e",
                                                                              "(",
                                                                              "s",
                                                                              ")",
                                                                              " ",
                                                                              "a",
                                                                              "d",
                                                                              "m",
                                                                              "i",
                                                                              "n",
                                                                              "i",
                                                                              "s",
                                                                              "t",
                                                                              "e",
                                                                              "r",
                                                                              "e",
                                                                              "d",
                                                                              "[",
                                                                              "a",
                                                                              "]">>, <<"S",
                                                                                       "a",
                                                                                       "m",
                                                                                       "p",
                                                                                       "l",
                                                                                       "e",
                                                                                       " ",
                                                                                       "s",
                                                                                       "i",
                                                                                       "z",
                                                                                       "e">>, <<"M",
                                                                                                "a",
                                                                                                "r",
                                                                                                "g",
                                                                                                "i",
                                                                                                "n",
                                                                                                " ",
                                                                                                "o",
                                                                                                "f",
                                                                                                " ",
                                                                                                "e",
                                                                                                "r",
                                                                                                "r",
                                                                                                "o",
                                                                                                "r">>>>

PollRow(pollster, values, n) ==
    DataRow(<<pollster, <<"1", "/", "1", "-", "1", "/", "2">>, <<"5", "0",
                                                                 "0", " ",
                                                                 "L", "V">>, <<"+",
                                                                               "-",
                                                                               "4",
                                                                               "%">>>>
            \o SubSeq(values, 1, n) \o <<<<"5">>>>)

\* the candidates the race requires in the header
RequiredCandidates(race) ==
    SubSeq(race.headers_must_include, 3, Len(race.headers_must_include))

\* a page with a table of another race and the polls of this race
PageWithPolls(race) ==
    LET cands == RequiredCandidates(race)
    IN [tables |->
          << Table(<<"w", "i", "k", "i", "t", "a", "b", "l", "e">>, LeadHeaders \o <<<<"A">>, <<"B">>>>,
                   <<PollRow(<<"P", "o", "l", "l", "s", "t", "e", "r", " ",
                               "X">>, PollValues[1], 2)>>),
             Table(<<"w", "i", "k", "i", "t", "a", "b", "l", "e", " ", "s",
                     "o", "r", "t", "a", "b", "l", "e">>, LeadHeaders \o cands \o <<<<"U",
                                                                                      "n",
                                                                                      "d",
                                                                                      "e",
                                                                                      "c",
                                                                                      "i",
                                                                                      "d",
                                                                                      "e",
                                                                                      "d">>>>,
                   << PollRow(<<"Q", "u", "a", "n", "t", "u", "s", " ", "(",
                                "R", ")">>, PollValues[1], Len(cands)),
                      PollRow(<<"P", "o", "l", "l", "s", "t", "e", "r", " ",
                                "X">>, PollValues[2], Len(cands)) >>) >>,
        cites |-> <<>>]

\* a page without the table of this race
PageWithoutTable(race) ==
    [tables |-> << Table(<<"w", "i", "k", "i", "t", "a", "b", "l", "e">>, LeadHeaders \o <<<<"A">>, <<"B">>>>,
                         <<PollRow(<<"P", "o", "l", "l", "s", "t", "e", "r",
                                     " ", "X">>, PollValues[1], 2)>>) >>,
     cites |-> <<>>]

\* a page on which a step after find_table raises.  For a race of three
\* required candidates a candidate column whose header is only a citation
\* mark leads the poll, and parse_table raises (split()[-1] of a blank name);
\* for the other races Other stands before the candidates, no candidate
\* column is detected, and build_snapshot raises (max() of an empty list)
PageRaising(race) ==
    LET cands == RequiredCandidates(race)
    IN IF Len(cands) = 3
       THEN [tables |->
               << Table(<<"w", "i", "k", "i", "t", "a", "b", "l", "e">>, LeadHeaders \o <<<<"[",
                                                                                            "c",
                                                                                            "]">>>> \o cands,
                        <<DataRow(<<<<"P", "o", "l", "l", "s", "t", "e",
                                      "r", " ", "X">>, <<"1", "/", "1", "-",
                                                         "1", "/", "2">>, <<"5",
                                                                            "0",
                                                                            "0",
                                                                            " ",
                                                                            "L",
                                                                            "V">>, <<"+",
                                                                                     "-",
                                                                                     "4",
                                                                                     "%">>,
                                    <<"5", "0">>>> \o SubSeq(PollValues[1], 1, Len(cands)))>>) >>,
             cites |-> <<>>]
       ELSE [tables |->
               << Table(<<"w", "i", "k", "i", "t", "a", "b", "l", "e">>, LeadHeaders \o <<<<"O",
                                                                                            "t",
                                                                                            "h",
                                                                                            "e",
                                                                                            "r">>>> \o cands,
                        <<PollRow(<<"P", "o", "l", "l", "s", "t", "e", "r",
                                    " ", "X">>, PollValues[1], Len(cands))>>) >>,
             cites |-> <<>>]

Json(shape, doc) == [tag |-> "json", shape |-> shape, doc |-> doc]

\* what fetch_json may answer for a race
Answers(race) ==
    { Raised,
      Json("notext", [tables |-> <<>>, cites |-> <<>>]),
      Json("html", PageWithoutTable(race)),
      Json("html", PageRaising(race)),
      Json("html", PageWithPolls(race)) }

----------------------------------------------------------------------------
(* update_alabama_tracker.main *)

InitTracker ==
    /\ pc = "loop"
    /\ races = <<>>
    /\ race_i = 1
    /\ fetched = <<>>
    /\ arg = None /\ ret = None
    /\ IdleRaceData

\* one turn of the loop over RACES
TrackerRace ==
    /\ pc = "loop"
    /\ race_i <= Len(RACES)
    /\ LET Turn(raw, entry, last) ==
               /\ fetched' = Append(fetched, raw)
               /\ IF entry = Raised
                  THEN pc' = "raised" /\ UNCHANGED <<races, race_i>>
                  ELSE /\ races' = Append(races, entry)
                       /\ race_i' = race_i + 1
                       /\ pc' = IF last THEN "write" ELSE "loop"
           Race(race, last) ==
               \E raw \in Answers(race) :
                  Turn(raw, RaceEntryOrFallback(race, raw), last)
       IN Race(RACES[race_i], race_i = Len(RACES))
    /\ UNCHANGED <<arg, ret, raceDataVars>>

\* json.dump(payload, f): ret holds the payload written
TrackerWrite ==
    /\ pc = "write"
    /\ ret' = [primary_day |-> PRIMARY_DAY, races |-> races]
    /\ pc' = "done"
    /\ UNCHANGED <<arg, trackerVars, raceDataVars>>

SpecTracker == InitTracker /\ [][TrackerRace \/ TrackerWrite]_vars

\* the answer for race k was one that loads no table: the fetch raised, the
\* page text was empty, the page held no matching table, or a step raised
NoTableLoaded(k) ==
    \/ fetched[k] = Raised
    \/ fetched[k].shape = "notext"
    \/ fetched[k].doc \in {PageWithoutTable(RACES[k]), PageRaising(RACES[k])}

\* the one line an entry without table carries for this answer
PlaceholderFor(k) ==
    IF fetched[k] = Raised THEN <<"U", "n", "a", "b", "l", "e", " ", "t",
                                  "o", " ", "l", "o", "a", "d", " ", "t",
                                  "h", "i", "s", " ", "r", "a", "c", "e",
                                  " ", "i", "n", " ", "t", "h", "e", " ",
                                  "c", "u", "r", "r", "e", "n", "t", " ",
                                  "r", "e", "f", "r", "e", "s", "h", ".">>
    ELSE IF fetched[k].shape = "notext" THEN <<"P", "o", "l", "l", "i", "n",
                                               "g", " ", "d", "a", "t", "a",
                                               " ", "i", "s", " ", "n", "o",
                                               "t", " ", "c", "u", "r", "r",
                                               "e", "n", "t", "l", "y", " ",
                                               "a", "v", "a", "i", "l", "a",
                                               "b", "l", "e", " ", "f", "r",
                                               "o", "m", " ", "t", "h", "e",
                                               " ", "c", "o", "n", "f", "i",
                                               "g", "u", "r", "e", "d", " ",
                                               "s", "o", "u", "r", "c", "e",
                                               ".">>
    ELSE IF fetched[k].doc = PageWithoutTable(RACES[k]) THEN <<"P", "o",
                                                               "l", "l",
                                                               "i", "n",
                                                               "g", " ",
                                                               "t", "a",
                                                               "b", "l",
                                                               "e", " ",
                                                               "n", "o",
                                                               "t", " ",
                                                               "f", "o",
                                                               "u", "n",
                                                               "d", " ",
                                                               "f", "o",
                                                               "r", " ",
                                                               "t", "h",
                                                               "i", "s",
                                                               " ", "r",
                                                               "a", "c",
                                                               "e", " ",
                                                               "o", "n",
                                                               " ", "t",
                                                               "h", "e",
                                                               " ", "s",
                                                               "o", "u",
                                                               "r", "c",
                                                               "e", " ",
                                                               "p", "a",
                                                               "g", "e",
                                                               ".">>
    ELSE <<"U", "n", "a", "b", "l", "e", " ", "t", "o", " ", "l", "o", "a",
           "d", " ", "t", "h", "i", "s", " ", "r", "a", "c", "e", " ", "i",
           "n", " ", "t", "h", "e", " ", "c", "u", "r", "r", "e", "n", "t",
           " ", "r", "e", "f", "r", "e", "s", "h", ".">>

\* the columns of a loaded race: the last names of its configured candidates
\* that the table lists, in configured order
ExpectedColumns(race) ==
    LET listed == SelectSeq(race.candidates,
                            LAMBDA c : InSeq(c, RequiredCandidates(race)))
    IN [i \in 1..Len(listed) |-> LastWordOf(listed[i])]

\* C3: whatever each race is answered with, main reaches the write step with
\* one entry per configured race, in configuration order, carrying that
\* race's id and name; a race that failed to load or whose table was not
\* found has a one-line placeholder snapshot and no columns and polls; and an
\* entry is decided by the answer to its own race alone.
C3_OneEntryPerRace ==
    /\ pc # "raised"
    /\ pc = "write" =>
          /\ Len(races) = Len(RACES)
          /\ \A k \in 1..Len(RACES) :
                /\ races[k].id = RACES[k].id
                /\ races[k].name = RACES[k].name
                /\ IF NoTableLoaded(k)
                   THEN /\ races[k].snapshot = <<PlaceholderFor(k)>>
                        /\ races[k].columns = <<>>
                        /\ races[k].polls = <<>>
                   ELSE /\ races[k].columns = ExpectedColumns(RACES[k])
                        /\ Len(races[k].polls) = 2
                        /\ races[k].polls[1].pollster = <<"Q", "u", "a",
                                                          "n", "t", "u",
                                                          "s">>
                        /\ Len(races[k].polls[1].values) = Len(races[k].columns)
                        /\ Len(races[k].snapshot) = 3

\* a run in which the first race fails to fetch, the second loads, the third
\* has no table, the fourth and the fifth raise in a later step, and the last loads
C3_Witness ==
    /\ pc = "write"
    /\ fetched[1] = Raised
    /\ ~NoTableLoaded(2)
    /\ races[2].columns = <<<<"T", "u", "b", "e", "r", "v", "i", "l", "l",
                              "e">>, <<"M", "c", "F", "e", "e", "t", "e",
                                       "r", "s">>>>
    /\ fetched[3] = Json("html", PageWithoutTable(RACES[3]))
    /\ fetched[4] = Json("html", PageRaising(RACES[4]))
    /\ fetched[5] = Json("html", PageRaising(RACES[5]))
    /\ races[4].snapshot = <<<<"U", "n", "a", "b", "l", "e", " ", "t", "o",
                               " ", "l", "o", "a", "d", " ", "t", "h", "i",
                               "s", " ", "r", "a", "c", "e", " ", "i", "n",
                               " ", "t", "h", "e", " ", "c", "u", "r", "r",
                               "e", "n", "t", " ", "r", "e", "f", "r", "e",
                               "s", "h", ".">>>>
    /\ races[5].snapshot = <<<<"U", "n", "a", "b", "l", "e", " ", "t", "o",
                               " ", "l", "o", "a", "d", " ", "t", "h", "i",
                               "s", " ", "r", "a", "c", "e", " ", "i", "n",
                               " ", "t", "h", "e", " ", "c", "u", "r", "r",
                               "e", "n", "t", " ", "r", "e", "f", "r", "e",
                               "s", "h", ".">>>>
    /\ ~NoTableLoaded(6)
    /\ races[6].polls # <<>>

----------------------------------------------------------------------------
(* update_race_data.py: the hardcoded tables.  A dict is the sequence of  *)
(* its entries in insertion order, each a record that carries its key.   *)

DEFAULT_SWING ==
    << [code |-> <<"N", "H">>, state_name |-> <<"N", "e", "w", " ", "H",
                                                "a", "m", "p", "s", "h",
                                                "i", "r", "e">>,
        cook_rating |-> <<"L", "e", "a", "n", " ", "D", "e", "m", "o", "c",
                          "r", "a", "t">>],
       [code |-> <<"G", "A">>, state_name |-> <<"G", "e", "o", "r", "g",
                                                "i", "a">>,
        cook_rating |-> <<"T", "o", "s", "s", " ", "U", "p">>],
       [code |-> <<"M", "E">>, state_name |-> <<"M", "a", "i", "n", "e">>,
        cook_rating |-> <<"T", "o", "s", "s", " ", "U", "p">>],
       [code |-> <<"M", "I">>, state_name |-> <<"M", "i", "c", "h", "i",
                                                "g", "a", "n">>,
        cook_rating |-> <<"T", "o", "s", "s", " ", "U", "p">>],
       [code |-> <<"N", "C">>, state_name |-> <<"N", "o", "r", "t", "h",
                                                " ", "C", "a", "r", "o",
                                                "l", "i", "n", "a">>,
        cook_rating |-> <<"T", "o", "s", "s", " ", "U", "p">>],
       [code |-> <<"A", "K">>, state_name |-> <<"A", "l", "a", "s", "k",
                                                "a">>,
        cook_rating |-> <<"L", "e", "a", "n", " ", "R", "e", "p", "u", "b",
                          "l", "i", "c", "a", "n">>],
       [code |-> <<"O", "H">>, state_name |-> <<"O", "h", "i", "o">>,
        cook_rating |-> <<"L", "e", "a", "n", " ", "R", "e", "p", "u", "b",
                          "l", "i", "c", "a", "n">>] >>

DEFAULT_POLL_TOPLINES ==
    << [code |-> <<"G", "A">>,
        rows |->
          << [contest |-> <<"2", "0", "2", "6", " ", "G", "e", "o", "r",
                            "g", "i", "a", " ", "S", "e", "n", "a", "t",
                            "e">>,
              race_name |-> <<"2", "0", "2", "6", " ", "G", "e", "o", "r",
                              "g", "i", "a", " ", "S", "e", "n", "a", "t",
                              "e", " ", "-", " ", "R", "e", "p", "u", "b",
                              "l", "i", "c", "a", "n", " ", "P", "r", "i",
                              "m", "a", "r", "y">>,
              candidates |-> <<<<"C", "o", "l", "l", "i", "n", "s">>, <<"C",
                                                                        "a",
                                                                        "r",
                                                                        "t",
                                                                        "e",
                                                                        "r">>, <<"D",
                                                                                 "o",
                                                                                 "o",
                                                                                 "l",
                                                                                 "e",
                                                                                 "y">>>>,
              polls |->
             << [pollster |-> <<"R", "C", "P", " ", "A", "v", "e", "r", "a",
                                "g", "e">>,
                date |-> <<"7", "/", "2", "8", " ", "-", " ", "2", "/", "1",
                           "8">>,
                sample |-> EmDash,
                values |-> <<<<"2", "9", ".", "5">>, <<"1", "7", ".", "8">>, <<"1",
                                                                               "0",
                                                                               ".",
                                                                               "3">>>>,
                spread |-> <<"C", "o", "l", "l", "i", "n", "s", " ", "+",
                             "1", "1", ".", "7">>],
                [pollster |-> <<"Q", "u", "a", "n", "t", "u", "s", " ", "I",
                                "n", "s", "i", "g", "h", "t", "s">>,
                date |-> <<"2", "/", "1", "7", " ", "-", " ", "2", "/", "1",
                           "8">>,
                sample |-> <<"1", "3", "3", "7", " ", "L", "V">>,
                values |-> <<<<"3", "6">>, <<"1", "1">>, <<"9">>>>,
                spread |-> <<"C", "o", "l", "l", "i", "n", "s", " ", "+",
                             "2", "5">>],
                [pollster |-> <<"I", "n", "s", "i", "d", "e", "r", "A", "d",
                                "v", "a", "n", "t", "a", "g", "e", "/", "R",
                                "o", "s", "e", "t", "t", "a">>,
                date |-> <<"1", "2", "/", "1", "8", " ", "-", " ", "1", "2",
                           "/", "1", "9">>,
                sample |-> <<"1", "0", "0", "0", " ", "L", "V">>,
                values |-> <<<<"2", "5">>, <<"2", "0">>, <<"1", "2">>>>,
                spread |-> <<"C", "o", "l", "l", "i", "n", "s", " ", "+",
                             "5">>],
                [pollster |-> <<"A", "t", "l", "a", "n", "t", "a", " ", "J",
                                "o", "u", "r", "n", "a", "l", "-", "C", "o",
                                "n", "s", "t", "i", "t", "u", "t", "i", "o",
                                "n">>,
                date |-> <<"1", "0", "/", "1", "3", " ", "-", " ", "1", "0",
                           "/", "2", "1">>,
                sample |-> <<"1", "0", "0", "0", " ", "L", "V">>,
                values |-> <<<<"3", "0">>, <<"2", "0">>, <<"1", "2">>>>,
                spread |-> <<"C", "o", "l", "l", "i", "n", "s", " ", "+",
                             "1", "0">>],
                [pollster |-> <<"T", "I", "P", "P", "*", "*">>,
                date |-> <<"7", "/", "2", "8", " ", "-", " ", "8", "/",
                           "1">>,
                sample |-> <<"R", "V">>,
                values |-> <<<<"2", "7">>, <<"2", "0">>, <<"8">>>>,
                spread |-> <<"C", "o", "l", "l", "i", "n", "s", " ", "+",
                             "7">>] >>] >>] >>

ALL_SENATE_ELECTION_STATES ==
    << <<"A", "L">>, <<"A", "K">>, <<"A", "R">>, <<"C", "O">>,
       <<"D", "E">>, <<"G", "A">>, <<"I", "D">>, <<"I", "L">>,
       <<"I", "A">>, <<"K", "S">>, <<"K", "Y">>, <<"L", "A">>,
       <<"M", "E">>, <<"M", "A">>, <<"M", "I">>, <<"M", "N">>,
       <<"M", "S">>, <<"M", "T">>, <<"N", "E">>, <<"N", "H">>,
       <<"N", "J">>, <<"N", "M">>, <<"N", "C">>, <<"O", "H">>,
       <<"O", "K">>, <<"O", "R">>, <<"R", "I">>, <<"S", "C">>,
       <<"S", "D">>, <<"T", "N">>, <<"T", "X">>, <<"V", "A">>,
       <<"W", "V">>, <<"W", "Y">> >>

ALL_DEFAULT_PRIMARY_DATES ==
    << [code |-> <<"A", "L">>,
        date |-> <<"M", "a", "y", " ", "1", "9", ",", " ", "2", "0", "2",
                   "6">>],
       [code |-> <<"A", "K">>,
        date |-> <<"A", "u", "g", "u", "s", "t", " ", "1", "8", ",", " ",
                   "2", "0", "2", "6">>],
       [code |-> <<"A", "R">>,
        date |-> <<"M", "a", "r", "c", "h", " ", "3", ",", " ", "2", "0",
                   "2", "6">>],
       [code |-> <<"C", "O">>,
        date |-> <<"J", "u", "n", "e", " ", "3", "0", ",", " ", "2", "0",
                   "2", "6">>],
       [code |-> <<"D", "E">>,
        date |-> <<"S", "e", "p", "t", "e", "m", "b", "e", "r", " ", "1",
                   "0", ",", " ", "2", "0", "2", "6">>],
       [code |-> <<"G", "A">>,
        date |-> <<"M", "a", "y", " ", "1", "9", ",", " ", "2", "0", "2",
                   "6">>],
       [code |-> <<"I", "D">>,
        date |-> <<"M", "a", "y", " ", "1", "9", ",", " ", "2", "0", "2",
                   "6">>],
       [code |-> <<"I", "L">>,
        date |-> <<"M", "a", "r", "c", "h", " ", "1", "7", ",", " ", "2",
                   "0", "2", "6">>],
       [code |-> <<"I", "A">>,
        date |-> <<"J", "u", "n", "e", " ", "2", ",", " ", "2", "0", "2",
                   "6">>],
       [code |-> <<"K", "S">>,
        date |-> <<"A", "u", "g", "u", "s", "t", " ", "4", ",", " ", "2",
                   "0", "2", "6">>],
       [code |-> <<"K", "Y">>,
        date |-> <<"M", "a", "y", " ", "1", "9", ",", " ", "2", "0", "2",
                   "6">>],
       [code |-> <<"L", "A">>,
        date |-> <<"N", "o", "v", "e", "m", "b", "e", "r", " ", "3", ",",
                   " ", "2", "0", "2", "6">>],
       [code |-> <<"M", "E">>,
        date |-> <<"J", "u", "n", "e", " ", "9", ",", " ", "2", "0", "2",
                   "6">>],
       [code |-> <<"M", "A">>,
        date |-> <<"S", "e", "p", "t", "e", "m", "b", "e", "r", " ", "8",
                   ",", " ", "2", "0", "2", "6">>],
       [code |-> <<"M", "I">>,
        date |-> <<"A", "u", "g", "u", "s", "t", " ", "4", ",", " ", "2",
                   "0", "2", "6">>],
       [code |-> <<"M", "N">>,
        date |-> <<"A", "u", "g", "u", "s", "t", " ", "1", "1", ",", " ",
                   "2", "0", "2", "6">>],
       [code |-> <<"M", "S">>,
        date |-> <<"M", "a", "r", "c", "h", " ", "1", "0", ",", " ", "2",
                   "0", "2", "6">>],
       [code |-> <<"M", "T">>,
        date |-> <<"J", "u", "n", "e", " ", "2", ",", " ", "2", "0", "2",
                   "6">>],
       [code |-> <<"N", "E">>,
        date |-> <<"M", "a", "y", " ", "1", "2", ",", " ", "2", "0", "2",
                   "6">>],
       [code |-> <<"N", "H">>,
        date |-> <<"S", "e", "p", "t", "e", "m", "b", "e", "r", " ", "8",
                   ",", " ", "2", "0", "2", "6">>],
       [code |-> <<"N", "J">>,
        date |-> <<"J", "u", "n", "e", " ", "2", ",", " ", "2", "0", "2",
                   "6">>],
       [code |-> <<"N", "M">>,
        date |-> <<"J", "u", "n", "e", " ", "2", ",", " ", "2", "0", "2",
                   "6">>],
       [code |-> <<"N", "C">>,
        date |-> <<"M", "a", "r", "c", "h", " ", "3", ",", " ", "2", "0",
                   "2", "6">>],
       [code |-> <<"O", "H">>,
        date |-> <<"M", "a", "y", " ", "5", ",", " ", "2", "0", "2", "6">>],
       [code |-> <<"O", "K">>,
        date |-> <<"J", "u", "n", "e", " ", "1", "6", ",", " ", "2", "0",
                   "2", "6">>],
       [code |-> <<"O", "R">>,
        date |-> <<"M", "a", "y", " ", "1", "9", ",", " ", "2", "0", "2",
                   "6">>],
       [code |-> <<"R", "I">>,
        date |-> <<"S", "e", "p", "t", "e", "m", "b", "e", "r", " ", "8",
                   ",", " ", "2", "0", "2", "6">>],
       [code |-> <<"S", "C">>,
        date |-> <<"J", "u", "n", "e", " ", "9", ",", " ", "2", "0", "2",
                   "6">>],
       [code |-> <<"S", "D">>,
        date |-> <<"J", "u", "n", "e", " ", "2", ",", " ", "2", "0", "2",
                   "6">>],
       [code |-> <<"T", "N">>,
        date |-> <<"A", "u", "g", "u", "s", "t", " ", "6", ",", " ", "2",
                   "0", "2", "6">>],
       [code |-> <<"T", "X">>,
        date |-> <<"M", "a", "r", "c", "h", " ", "3", ",", " ", "2", "0",
                   "2", "6">>],
       [code |-> <<"V", "A">>,
        date |-> <<"J", "u", "n", "e", " ", "1", "6", ",", " ", "2", "0",
                   "2", "6">>],
       [code |-> <<"W", "V">>,
        date |-> <<"M", "a", "y", " ", "1", "2", ",", " ", "2", "0", "2",
                   "6">>],
       [code |-> <<"W", "Y">>,
        date |-> <<"A", "u", "g", "u", "s", "t", " ", "1", "8", ",", " ",
                   "2", "0", "2", "6">>] >>

STATE_TO_CODE ==
    << [state_name |-> <<"A", "l", "a", "b", "a", "m", "a">>,
        code |-> <<"A", "L">>],
       [state_name |-> <<"A", "l", "a", "s", "k", "a">>,
        code |-> <<"A", "K">>],
       [state_name |-> <<"A", "r", "i", "z", "o", "n", "a">>,
        code |-> <<"A", "Z">>],
       [state_name |-> <<"A", "r", "k", "a", "n", "s", "a", "s">>,
        code |-> <<"A", "R">>],
       [state_name |-> <<"C", "a", "l", "i", "f", "o", "r", "n", "i", "a">>,
        code |-> <<"C", "A">>],
       [state_name |-> <<"C", "o", "l", "o", "r", "a", "d", "o">>,
        code |-> <<"C", "O">>],
       [state_name |-> <<"C", "o", "n", "n", "e", "c", "t", "i", "c", "u",
                         "t">>,
        code |-> <<"C", "T">>],
       [state_name |-> <<"D", "e", "l", "a", "w", "a", "r", "e">>,
        code |-> <<"D", "E">>],
       [state_name |-> <<"F", "l", "o", "r", "i", "d", "a">>,
        code |-> <<"F", "L">>],
       [state_name |-> <<"G", "e", "o", "r", "g", "i", "a">>,
        code |-> <<"G", "A">>],
       [state_name |-> <<"H", "a", "w", "a", "i", "i">>,
        code |-> <<"H", "I">>],
       [state_name |-> <<"I", "d", "a", "h", "o">>,
        code |-> <<"I", "D">>],
       [state_name |-> <<"I", "l", "l", "i", "n", "o", "i", "s">>,
        code |-> <<"I", "L">>],
       [state_name |-> <<"I", "n", "d", "i", "a", "n", "a">>,
        code |-> <<"I", "N">>],
       [state_name |-> <<"I", "o", "w", "a">>,
        code |-> <<"I", "A">>],
       [state_name |-> <<"K", "a", "n", "s", "a", "s">>,
        code |-> <<"K", "S">>],
       [state_name |-> <<"K", "e", "n", "t", "u", "c", "k", "y">>,
        code |-> <<"K", "Y">>],
       [state_name |-> <<"L", "o", "u", "i", "s", "i", "a", "n", "a">>,
        code |-> <<"L", "A">>],
       [state_name |-> <<"M", "a", "i", "n", "e">>,
        code |-> <<"M", "E">>],
       [state_name |-> <<"M", "a", "r", "y", "l", "a", "n", "d">>,
        code |-> <<"M", "D">>],
       [state_name |-> <<"M", "a", "s", "s", "a", "c", "h", "u", "s", "e",
                         "t", "t", "s">>,
        code |-> <<"M", "A">>],
       [state_name |-> <<"M", "i", "c", "h", "i", "g", "a", "n">>,
        code |-> <<"M", "I">>],
       [state_name |-> <<"M", "i", "n", "n", "e", "s", "o", "t", "a">>,
        code |-> <<"M", "N">>],
       [state_name |-> <<"M", "i", "s", "s", "i", "s", "s", "i", "p", "p",
                         "i">>,
        code |-> <<"M", "S">>],
       [state_name |-> <<"M", "i", "s", "s", "o", "u", "r", "i">>,
        code |-> <<"M", "O">>],
       [state_name |-> <<"M", "o", "n", "t", "a", "n", "a">>,
        code |-> <<"M", "T">>],
       [state_name |-> <<"N", "e", "b", "r", "a", "s", "k", "a">>,
        code |-> <<"N", "E">>],
       [state_name |-> <<"N", "e", "v", "a", "d", "a">>,
        code |-> <<"N", "V">>],
       [state_name |-> <<"N", "e", "w", " ", "H", "a", "m", "p", "s", "h",
                         "i", "r", "e">>,
        code |-> <<"N", "H">>],
       [state_name |-> <<"N", "e", "w", " ", "J", "e", "r", "s", "e", "y">>,
        code |-> <<"N", "J">>],
       [state_name |-> <<"N", "e", "w", " ", "M", "e", "x", "i", "c", "o">>,
        code |-> <<"N", "M">>],
       [state_name |-> <<"N", "e", "w", " ", "Y", "o", "r", "k">>,
        code |-> <<"N", "Y">>],
       [state_name |-> <<"N", "o", "r", "t", "h", " ", "C", "a", "r", "o",
                         "l", "i", "n", "a">>,
        code |-> <<"N", "C">>],
       [state_name |-> <<"N", "o", "r", "t", "h", " ", "D", "a", "k", "o",
                         "t", "a">>,
        code |-> <<"N", "D">>],
       [state_name |-> <<"O", "h", "i", "o">>,
        code |-> <<"O", "H">>],
       [state_name |-> <<"O", "k", "l", "a", "h", "o", "m", "a">>,
        code |-> <<"O", "K">>],
       [state_name |-> <<"O", "r", "e", "g", "o", "n">>,
        code |-> <<"O", "R">>],
       [state_name |-> <<"P", "e", "n", "n", "s", "y", "l", "v", "a", "n",
                         "i", "a">>,
        code |-> <<"P", "A">>],
       [state_name |-> <<"R", "h", "o", "d", "e", " ", "I", "s", "l", "a",
                         "n", "d">>,
        code |-> <<"R", "I">>],
       [state_name |-> <<"S", "o", "u", "t", "h", " ", "C", "a", "r", "o",
                         "l", "i", "n", "a">>,
        code |-> <<"S", "C">>],
       [state_name |-> <<"S", "o", "u", "t", "h", " ", "D", "a", "k", "o",
                         "t", "a">>,
        code |-> <<"S", "D">>],
       [state_name |-> <<"T", "e", "n", "n", "e", "s", "s", "e", "e">>,
        code |-> <<"T", "N">>],
       [state_name |-> <<"T", "e", "x", "a", "s">>,
        code |-> <<"T", "X">>],
       [state_name |-> <<"U", "t", "a", "h">>,
        code |-> <<"U", "T">>],
       [state_name |-> <<"V", "e", "r", "m", "o", "n", "t">>,
        code |-> <<"V", "T">>],
       [state_name |-> <<"V", "i", "r", "g", "i", "n", "i", "a">>,
        code |-> <<"V", "A">>],
       [state_name |-> <<"W", "a", "s", "h", "i", "n", "g", "t", "o", "n">>,
        code |-> <<"W", "A">>],
       [state_name |-> <<"W", "e", "s", "t", " ", "V", "i", "r", "g", "i",
                         "n", "i", "a">>,
        code |-> <<"W", "V">>],
       [state_name |-> <<"W", "i", "s", "c", "o", "n", "s", "i", "n">>,
        code |-> <<"W", "I">>],
       [state_name |-> <<"W", "y", "o", "m", "i", "n", "g">>,
        code |-> <<"W", "Y">>] >>

----------------------------------------------------------------------------
(* update_race_data.py: parse_cook_swing                                   *)
(*                                                                         *)
(* What fetch_text answers is Raised or the text of the page as a str      *)
(* value.  The right single quotation mark of the name pattern is the one  *)
(* character U+2019.                                                       *)

\* the fewest parsed states for which the parsed table is returned
MinRatedStates == 4

\* the longest candidate text of the row pattern: {2,35}
MaxNameLen == 35

\* d[key] = rec for a dict of records that carry their key as code
Put(d, rec) ==
    IF \E i \in 1..Len(d) : d[i].code = rec.code
    THEN [i \in 1..Len(d) |-> IF d[i].code = rec.code THEN rec ELSE d[i]]
    ELSE Append(d, rec)

\* d.get(code): the entry of that key, or None
Get(d, code) ==
    IF \E i \in 1..Len(d) : d[i].code = code
    THEN d[CHOOSE i \in 1..Len(d) : d[i].code = code]
    ELSE None

code_to_name(code) ==
    LET First(names) ==
            IF \E i \in 1..Len(names) : names[i].code = code
            THEN names[CHOOSE i \in 1..Len(names) :
                         /\ names[i].code = code
                         /\ \A j \in 1..(i - 1) : names[j].code # code].state_name
            ELSE code
    IN First(STATE_TO_CODE)

\* re.sub(r"<[^>]+>", " ", raw)
RECURSIVE StripTags(_)
StripTags(s) ==
    LET \* a the first "<", b the first ">" after it: no tag when either is
        \* missing, none at a when b follows a at once
        Cut(a, b) ==
            IF a = 0 \/ b = 0 THEN s
            ELSE IF b = a + 1
                 THEN SubSeq(s, 1, a) \o StripTags(SubSeq(s, a + 1, Len(s)))
            ELSE SubSeq(s, 1, a - 1) \o <<" ">>
                 \o StripTags(SubSeq(s, b + 1, Len(s)))
        Open(a) == Cut(a, IF a = 0 THEN 0 ELSE Find(s, <<">">>, a + 1))
    IN Open(Find(s, <<"<">>, 1))

\* html.unescape(text); the pages of the model hold no character reference
\* but &amp;
unescape(s) == Replace(s, <<"&", "a", "m", "p", ";">>, <<"&">>)

\* re.search(start + r"(.*?)" + end, text, flags=re.IGNORECASE): group 1 as
\* a str value, or None.  The leftmost start is followed by the nearest end.
Section(text, start, end) ==
    LET Until(a, b) ==
            IF b = 0 THEN None ELSE PyStr(SubSeq(text, a + Len(start), b - 1))
        From(lo, a) ==
            IF a = 0 THEN None
            ELSE Until(a, Find(lo, lower(end), a + Len(start)))
        In(lo) == From(lo, Find(lo, lower(start), 1))
    IN In(lower(text))

\* \w
IsWordChar(c) ==
    IsDigit(c) \/ c = "_" \/ \E i \in 1..26 : Upper[i] = c \/ Lower[i] = c

\* last index of the run of [A-Za-z\-’' ] of s that starts at j, cut at n
\* characters; j - 1 when s[j] is no such character
RECURSIVE NameRunEnd(_, _, _)
NameRunEnd(s, j, n) ==
    IF n > 0 /\ j <= Len(s)
       /\ (s[j] \in {"-", "U+2019", "'", " "}
           \/ \E i \in 1..26 : Upper[i] = s[j] \/ Lower[i] = s[j])
    THEN NameRunEnd(s, j + 1, n - 1)
    ELSE j - 1

\* ([A-Za-z\-’' ]{2,35})\b at j: the last index of the longest such group,
\* 0 when no group of two characters or more ends at a word boundary
NameEnd(s, j) ==
    LET \* \b after the p-th character of s
        Boundary(p) ==
            (p >= 1 /\ p <= Len(s) /\ IsWordChar(s[p]))
              # (p + 1 <= Len(s) /\ IsWordChar(s[p + 1]))
        Longest(ends) ==
            IF ends = {} THEN 0
            ELSE CHOOSE e \in ends : \A f \in ends : f <= e
        Within(r) == Longest({e \in (j + 1)..r : Boundary(e)})
    IN Within(NameRunEnd(s, j, MaxNameLen))

\* re.findall(r"\b([A-Z]{2})\s+([A-Za-z\-’' ]{2,35})\b", chunk): the first
\* group of every match from index i on.  The text holds single blanks
\* only (line 140), so \s+ takes one blank.
RECURSIVE StatesFound(_, _)
StatesFound(s, i) ==
    IF i + 4 > Len(s) THEN <<>>
    ELSE LET Next(e) ==
                 IF e = 0 THEN StatesFound(s, i + 1)
                 ELSE <<SubSeq(s, i, i + 1)>> \o StatesFound(s, e + 1)
         IN Next(IF /\ (i = 1 \/ ~IsWordChar(s[i - 1]))
                    /\ UpperIndex(s[i]) # 0
                    /\ UpperIndex(s[i + 1]) # 0
                    /\ IsSpace(s[i + 2])
                 THEN NameEnd(s, i + 3)
                 ELSE 0)

\* lines 139-157: the dict out built from the page
CookRatings(raw) ==
    LET \* the loop over the matches of one chunk
        Rated(out, found, label) ==
            LET Known(names, st) == \E k \in 1..Len(names) : names[k].code = st
                acc[i \in 0..Len(found)] ==
                    IF i = 0 THEN out
                    ELSE IF Known(STATE_TO_CODE, found[i])
                         THEN Put(acc[i - 1],
                                  [code |-> found[i],
                                   state_name |-> code_to_name(found[i]),
                                   cook_rating |-> label])
                    ELSE acc[i - 1]
            IN acc[Len(found)]
        Chunk(out, m, label) ==
            IF m = None THEN out ELSE Rated(out, StatesFound(m.val, 1), label)
        Sections(text) ==
            Chunk(Chunk(Chunk(<<>>,
                              Section(text, <<"L", "e", "a", "n", " ", "D">>, <<"T",
                                                                                "o",
                                                                                "s",
                                                                                "s",
                                                                                " ",
                                                                                "U",
                                                                                "p">>),
                              <<"L", "e", "a", "n", " ", "D", "e", "m", "o",
                                "c", "r", "a", "t">>),
                        Section(text, <<"T", "o", "s", "s", " ", "U", "p">>, <<"L",
                                                                               "e",
                                                                               "a",
                                                                               "n",
                                                                               " ",
                                                                               "R">>),
                        <<"T", "o", "s", "s", " ", "U", "p">>),
                  Section(text, <<"L", "e", "a", "n", " ", "R">>, <<"L",
                                                                    "i",
                                                                    "k",
                                                                    "e",
                                                                    "l",
                                                                    "y",
                                                                    " ",
                                                                    "R">>),
                  <<"L", "e", "a", "n", " ", "R", "e", "p", "u", "b", "l",
                    "i", "c", "a", "n">>)
    IN Sections(unescape(CollapseSpaces(StripTags(raw))))

\* a parser that returns whatever it parsed, however few states
parse_cook_swing_any(answer) ==
    IF answer = Raised THEN DEFAULT_SWING ELSE CookRatings(answer.val)

parse_cook_swing(answer) ==
    LET Enough(out) == IF Len(out) >= MinRatedStates THEN out ELSE DEFAULT_SWING
    IN IF answer = Raised THEN DEFAULT_SWING
       ELSE Enough(CookRatings(answer.val))

----------------------------------------------------------------------------
(* parse_cook_swing over sample pages *)

\* the ratings pages of the model: the three sections, each with one of a
\* few lists of races, with or without the heading that ends the last one
CookPages ==
    { <<"<", "h", "2", ">", "L", "e", "a", "n", " ", "D", "<", "/", "h",
        "2", ">", "<", "u", "l", ">">> \o leanD
      \o <<"<", "/", "u", "l", ">", "<", "h", "2", ">", "T", "o", "s", "s",
           " ", "U", "p", "<", "/", "h", "2", ">", "<", "u", "l", ">">> \o tossUp
      \o <<"<", "/", "u", "l", ">", "<", "h", "2", ">", "L", "e", "a", "n",
           " ", "R", "<", "/", "h", "2", ">", "<", "u", "l", ">">> \o leanR \o <<"<",
                                                                                 "/",
                                                                                 "u",
                                                                                 "l",
                                                                                 ">">> \o likelyR :
        leanD \in { <<"<", "l", "i", ">", "N", "H", " ", "O", "p", "e", "n",
                      " ", "(", "D", ")", "<", "/", "l", "i", ">">>,
                    <<"<", "l", "i", ">", "N", "H", " ", "O", "p", "e", "n",
                      " ", "(", "D", ")", "<", "/", "l", "i", ">", "<", "l",
                      "i", ">", "M", "N", " ", "O", "p", "e", "n", " ", "(",
                      "D", ")", "<", "/", "l", "i", ">">>,
                    <<>> },
        tossUp \in { <<"<", "l", "i", ">", "G", "A", " ", "O", "s", "s",
                       "o", "f", "f", " ", "(", "D", ")", "<", "/", "l",
                       "i", ">", "<", "l", "i", ">", "M", "E", " ", "C",
                       "o", "l", "l", "i", "n", "s", " ", "(", "R", ")",
                       "<", "/", "l", "i", ">", "<", "l", "i", ">", "M",
                       "I", " ", "O", "p", "e", "n", " ", "(", "D", ")",
                       "<", "/", "l", "i", ">", "<", "l", "i", ">", "N",
                       "C", " ", "T", "i", "l", "l", "i", "s", " ", "(",
                       "R", ")", "<", "/", "l", "i", ">">>,
                     <<"<", "l", "i", ">", "G", "A", " ", "O", "s", "s",
                       "o", "f", "f", " ", "&", "a", "m", "p", ";", " ",
                       "M", "E", " ", "C", "o", "l", "l", "i", "n", "s",
                       "<", "/", "l", "i", ">">>,
                     <<"<", "l", "i", ">", "Z", "Z", " ", "N", "o", "b",
                       "o", "d", "y", " ", "(", "I", ")", "<", "/", "l",
                       "i", ">", "<", "l", "i", ">", "G", "A", " ", "O",
                       "s", "s", "o", "f", "f", " ", "(", "D", ")", "<",
                       "/", "l", "i", ">">>,
                     <<"<", "l", "i", ">", "G", "A", " ", "O", "s", "s",
                       "o", "f", "f", "<", "/", "l", "i", ">", "<", "l",
                       "i", ">", "M", "E", " ", "C", "o", "l", "l", "i",
                       "n", "s", "<", "/", "l", "i", ">", "<", "l", "i",
                       ">", "M", "I", " ", "O", "p", "e", "n", "<", "/",
                       "l", "i", ">">> },
        leanR \in { <<"<", "l", "i", ">", "A", "K", " ", "S", "u", "l", "l",
                      "i", "v", "a", "n", " ", "(", "R", ")", "<", "/", "l",
                      "i", ">", "<", "l", "i", ">", "O", "H", " ", "H", "u",
                      "s", "t", "e", "d", " ", "(", "R", ")", "<", "/", "l",
                      "i", ">">>,
                    <<"<", "l", "i", ">", "O", "H", " ", "H", "u", "s", "t",
                      "e", "d", " ", "(", "R", ")", "<", "/", "l", "i", ">",
                      "<", "l", "i", ">", "G", "A", " ", "O", "s", "s", "o",
                      "f", "f", " ", "(", "D", ")", "<", "/", "l", "i",
                      ">">>,
                    <<>> },
        likelyR \in { <<"<", "h", "2", ">", "L", "i", "k", "e", "l", "y",
                        " ", "R", "<", "/", "h", "2", ">">>, <<>> } }

InitCook ==
    /\ pc = "call"
    /\ arg \in {Raised} \cup {PyStr(page) : page \in CookPages}
    /\ ret = None
    /\ IdleTracker /\ IdleRaceData

CallParseCookSwing ==
    /\ pc = "call"
    /\ pc' = "done"
    /\ ret' = parse_cook_swing(arg)
    /\ UNCHANGED <<arg, trackerVars, raceDataVars>>

SpecCook == InitCook /\ [][CallParseCookSwing]_vars

----------------------------------------------------------------------------
(* parse_cook_swing: the fallback to DEFAULT_SWING *)

\* the codes and ratings of a ratings table
CodesAndRatings(table) ==
    [i \in 1..Len(table) |-> <<table[i].code, table[i].cook_rating>>]

\* a page that rates Georgia and Maine as toss-ups; its Lean R section
\* is not followed by a Likely R heading and is not read
TwoStatePage ==
    PyStr(<<"<", "h", "2", ">", "L", "e", "a", "n", " ", "D", "<", "/", "h",
            "2", ">", "<", "u", "l", ">", "<", "/", "u", "l", ">", "<", "h",
            "2", ">", "T", "o", "s", "s", " ", "U", "p", "<", "/", "h", "2",
            ">", "<", "u", "l", ">", "<", "l", "i", ">", "G", "A", " ", "O",
            "s", "s", "o", "f", "f", " ", "&", "a", "m", "p", ";", " ", "M",
            "E", " ", "C", "o", "l", "l", "i", "n", "s", "<", "/", "l", "i",
            ">", "<", "/", "u", "l", ">", "<", "h", "2", ">", "L", "e", "a",
            "n", " ", "R", "<", "/", "h", "2", ">", "<", "u", "l", ">", "<",
            "l", "i", ">", "A", "K", " ", "S", "u", "l", "l", "i", "v", "a",
            "n", " ", "(", "R", ")", "<", "/", "l", "i", ">", "<", "l", "i",
            ">", "O", "H", " ", "H", "u", "s", "t", "e", "d", " ", "(", "R",
            ")", "<", "/", "l", "i", ">", "<", "/", "u", "l", ">">>)

\* a page that rates Ohio and Georgia as leaning Republican after rating
\* Georgia a toss-up with Maine, Michigan and North Carolina
FiveStatePage ==
    PyStr(<<"<", "h", "2", ">", "L", "e", "a", "n", " ", "D", "<", "/", "h",
            "2", ">", "<", "u", "l", ">", "<", "/", "u", "l", ">", "<", "h",
            "2", ">", "T", "o", "s", "s", " ", "U", "p", "<", "/", "h", "2",
            ">", "<", "u", "l", ">", "<", "l", "i", ">", "G", "A", " ", "O",
            "s", "s", "o", "f", "f", " ", "(", "D", ")", "<", "/", "l", "i",
            ">", "<", "l", "i", ">", "M", "E", " ", "C", "o", "l", "l", "i",
            "n", "s", " ", "(", "R", ")", "<", "/", "l", "i", ">", "<", "l",
            "i", ">", "M", "I", " ", "O", "p", "e", "n", " ", "(", "D", ")",
            "<", "/", "l", "i", ">", "<", "l", "i", ">", "N", "C", " ", "T",
            "i", "l", "l", "i", "s", " ", "(", "R", ")", "<", "/", "l", "i",
            ">", "<", "/", "u", "l", ">", "<", "h", "2", ">", "L", "e", "a",
            "n", " ", "R", "<", "/", "h", "2", ">", "<", "u", "l", ">", "<",
            "l", "i", ">", "O", "H", " ", "H", "u", "s", "t", "e", "d", " ",
            "(", "R", ")", "<", "/", "l", "i", ">", "<", "l", "i", ">", "G",
            "A", " ", "O", "s", "s", "o", "f", "f", " ", "(", "D", ")", "<",
            "/", "l", "i", ">", "<", "/", "u", "l", ">", "<", "h", "2", ">",
            "L", "i", "k", "e", "l", "y", " ", "R", "<", "/", "h", "2",
            ">">>)

\* C2: parse_cook_swing returns exactly the codes and ratings of
\* DEFAULT_SWING when the fetch of the ratings page raises and when fewer
\* than 4 rated states are parsed from it; it returns the parsed table only
\* when at least 4 states were parsed; no exception leaves it.
C2_DefaultUnlessFourParsed ==
    pc = "done" =>
      /\ arg = Raised =>
           CodesAndRatings(ret) =
             << <<<<"N", "H">>, <<"L", "e", "a", "n", " ", "D", "e", "m",
                                  "o", "c", "r", "a", "t">>>>, <<<<"G",
                                                                   "A">>, <<"T",
                                                                            "o",
                                                                            "s",
                                                                            "s",
                                                                            " ",
                                                                            "U",
                                                                            "p">>>>,
                <<<<"M", "E">>, <<"T", "o", "s", "s", " ", "U", "p">>>>, <<<<"M",
                                                                             "I">>, <<"T",
                                                                                      "o",
                                                                                      "s",
                                                                                      "s",
                                                                                      " ",
                                                                                      "U",
                                                                                      "p">>>>,
                <<<<"N", "C">>, <<"T", "o", "s", "s", " ", "U", "p">>>>, <<<<"A",
                                                                             "K">>, <<"L",
                                                                                      "e",
                                                                                      "a",
                                                                                      "n",
                                                                                      " ",
                                                                                      "R",
                                                                                      "e",
                                                                                      "p",
                                                                                      "u",
                                                                                      "b",
                                                                                      "l",
                                                                                      "i",
                                                                                      "c",
                                                                                      "a",
                                                                                      "n">>>>,
                <<<<"O", "H">>, <<"L", "e", "a", "n", " ", "R", "e", "p",
                                  "u", "b", "l", "i", "c", "a", "n">>>> >>
      /\ arg # Raised =>
           /\ Len(CookRatings(arg.val)) < 4 => ret = DEFAULT_SWING
           /\ ret # DEFAULT_SWING =>
                Len(CookRatings(arg.val)) >= 4 /\ ret = CookRatings(arg.val)
      /\ arg = FiveStatePage =>
           CodesAndRatings(ret) =
             << <<<<"G", "A">>, <<"L", "e", "a", "n", " ", "R", "e", "p",
                                  "u", "b", "l", "i", "c", "a", "n">>>>, <<<<"M",
                                                                             "E">>, <<"T",
                                                                                      "o",
                                                                                      "s",
                                                                                      "s",
                                                                                      " ",
                                                                                      "U",
                                                                                      "p">>>>,
                <<<<"M", "I">>, <<"T", "o", "s", "s", " ", "U", "p">>>>, <<<<"N",
                                                                             "C">>, <<"T",
                                                                                      "o",
                                                                                      "s",
                                                                                      "s",
                                                                                      " ",
                                                                                      "U",
                                                                                      "p">>>>,
                <<<<"O", "H">>, <<"L", "e", "a", "n", " ", "R", "e", "p",
                                  "u", "b", "l", "i", "c", "a", "n">>>> >>

\* two states are parsed from the page and the default table is returned
C2_Witness ==
    /\ pc = "done"
    /\ arg = TwoStatePage
    /\ Len(CookRatings(arg.val)) = 2
    /\ ret = DEFAULT_SWING

----------------------------------------------------------------------------
(* update_race_data.py: extract_poly_price, get_polymarket, get_kalshi     *)
(*                                                                         *)
(* A JSON value is None, a number PyNum(d), a str PyStr(s), a list         *)
(* [tag |-> "list", val], a market [tag |-> "dict", ...] that holds None   *)
(* for every key it lacks, or PyObj for any other value.  A str that is    *)
(* read as JSON carries, as json, what json.loads makes of it: a JSON      *)
(* value, or Raised when it is no JSON text.  What fetch_json answers is   *)
(* a JSON value, or Raised.  Titles, slugs and tickers are strs or absent. *)

\* the most records a matcher returns: [:4]
MaxListed == 4

PyList(xs) == [tag |-> "list", val |-> xs]

\* bool(v)
Truthy(v) ==
    CASE v.tag = "None" -> FALSE
      [] v.tag = "str" -> v.val # <<>>
      [] v.tag = "num" -> v.val.m # 0
      [] v.tag = "list" -> v.val # <<>>
      [] OTHER -> TRUE

\* a or b
Or(a, b) == IF Truthy(a) THEN a ELSE b

\* "senate" in lo and state_name.lower() in lo
\* and ("primary" in lo or "nomination" in lo), lo = title.lower()
TitleMatches(title, state_name) ==
    LET Holds(lo) ==
            /\ Contains(lo, <<"s", "e", "n", "a", "t", "e">>)
            /\ Contains(lo, lower(state_name))
            /\ (Contains(lo, <<"p", "r", "i", "m", "a", "r", "y">>) \/ Contains(lo, <<"n",
                                                                                      "o",
                                                                                      "m",
                                                                                      "i",
                                                                                      "n",
                                                                                      "a",
                                                                                      "t",
                                                                                      "i",
                                                                                      "o",
                                                                                      "n">>))
    IN Holds(lower(title))

\* a ranking that leaves the listing in its order
ListingOrder(ms, keys) == ms

\* sorted(ms, key=..., reverse=True) for the keys given: descending, equal
\* keys in their order in ms
SortedDescending(ms, keys) ==
    LET Before(i) ==
            {j \in 1..Len(ms) :
               \/ DecLess(keys[i], keys[j])
               \/ (~DecLess(keys[j], keys[i]) /\ j < i)}
    IN [p \in 1..Len(ms) |->
          ms[CHOOSE i \in 1..Len(ms) : Cardinality(Before(i)) = p - 1]]

\* a liquidity that counts as 0 what float() rejects
LiquidityOrZero(mkt) ==
    LET Value(x) == IF x = Raised THEN Zero ELSE x
    IN Value(float_any(Or(mkt.liquidity, PyNum(Zero))))

\* float(x.get("liquidity", 0) or 0), or Raised
Liquidity(mkt) == float_any(Or(mkt.liquidity, PyNum(Zero)))

extract_poly_price(mkt) ==
    LET Last == maybe_parse_price(mkt.lastTradePrice)
        FirstOf(arr) ==
            IF arr.tag = "list" /\ arr.val # <<>>
            THEN maybe_parse_price(arr.val[1])
            ELSE Last
    IN IF mkt.outcomePrices.tag = "str"
       THEN FirstOf(mkt.outcomePrices.json)
       ELSE FirstOf(mkt.outcomePrices)

\* xs[:n]
Take(xs, n) == SubSeq(xs, 1, IF Len(xs) < n THEN Len(xs) ELSE n)

\* str(mkt.get("question") or mkt.get("title") or default)
PolymarketTitle(mkt, default) ==
    Or(Or(mkt.question, mkt.title), PyStr(default)).val

\* str(mkt.get("title") or mkt.get("subtitle") or mkt.get("ticker") or default)
KalshiTitle(mkt, default) ==
    Or(Or(Or(mkt.title, mkt.subtitle), mkt.ticker), PyStr(default)).val

get_polymarket(state_name, answer) ==
    LET Record(mkt) ==
            [title |-> PolymarketTitle(mkt, <<"M", "a", "r", "k", "e", "t">>),
             yes_price |-> extract_poly_price(mkt),
             url |-> IF Truthy(mkt.slug)
                     THEN <<"h", "t", "t", "p", "s", ":", "/", "/", "p",
                            "o", "l", "y", "m", "a", "r", "k", "e", "t",
                            ".", "c", "o", "m", "/", "e", "v", "e", "n",
                            "t", "/">> \o mkt.slug.val
                     ELSE <<"h", "t", "t", "p", "s", ":", "/", "/", "p",
                            "o", "l", "y", "m", "a", "r", "k", "e", "t",
                            ".", "c", "o", "m">>]
        Out(top) == [i \in 1..Len(top) |-> Record(top[i])]
        \* the sort raises when a key does
        Ranked(candidates, keys) ==
            IF \E i \in 1..Len(keys) : keys[i] = Raised THEN <<>>
            ELSE Out(Take(SortedDescending(candidates, keys), MaxListed))
        Candidates(cs) ==
            Ranked(cs, [i \in 1..Len(cs) |-> Liquidity(cs[i])])
        \* mkt.get raises on a value that is no dict
        Markets(ms) ==
            IF \E i \in 1..Len(ms) : ms[i].tag # "dict" THEN <<>>
            ELSE Candidates(SelectSeq(ms, LAMBDA m :
                                        TitleMatches(PolymarketTitle(m, <<>>),
                                                     state_name)))
    IN IF answer.tag = "list" THEN Markets(answer.val) ELSE <<>>

get_kalshi(state_name, answers) ==
    LET Record(mkt) ==
            [title |-> KalshiTitle(mkt, <<"M", "a", "r", "k", "e", "t">>),
             yes_price |-> maybe_parse_price(Or(Or(mkt.yes_ask, mkt.yes_bid),
                                                mkt.last_price)),
             url |-> IF Truthy(mkt.ticker)
                     THEN <<"h", "t", "t", "p", "s", ":", "/", "/", "k",
                            "a", "l", "s", "h", "i", ".", "c", "o", "m",
                            "/", "m", "a", "r", "k", "e", "t", "s", "/">> \o mkt.ticker.val
                     ELSE <<"h", "t", "t", "p", "s", ":", "/", "/", "k",
                            "a", "l", "s", "h", "i", ".", "c", "o", "m",
                            "/", "m", "a", "r", "k", "e", "t", "s">>]
        Out(filtered) == [i \in 1..Len(filtered) |-> Record(filtered[i])]
        Markets(ms) ==
            IF \E i \in 1..Len(ms) : ms[i].tag # "dict" THEN <<>>
            ELSE Out(Take(SelectSeq(ms, LAMBDA m :
                                      TitleMatches(KalshiTitle(m, <<>>),
                                                   state_name)),
                          MaxListed))
        Listing(markets) ==
            IF markets.tag = "list" THEN Markets(markets.val) ELSE <<>>
        \* what one endpoint adds to out
        Endpoint(payload) ==
            IF payload = Raised THEN <<>>
            ELSE Listing(IF payload.tag = "dict" THEN payload.markets ELSE payload)
        Second(out) == IF out # <<>> THEN out ELSE Endpoint(answers[2])
    IN Second(Endpoint(answers[1]))

----------------------------------------------------------------------------
(* get_polymarket and get_kalshi on listings of up to MaxMarkets entries   *)

\* most entries of a listing
MaxMarkets == 5

\* a market of the Polymarket listing
PolyMarket(question, title, liquidity, slug, outcomePrices, lastTradePrice) ==
    [tag |-> "dict", question |-> question, title |-> title,
     liquidity |-> liquidity, slug |-> slug,
     outcomePrices |-> outcomePrices, lastTradePrice |-> lastTradePrice]

\* a market of a Kalshi listing
KalshiMarket(title, subtitle, ticker, yes_ask, yes_bid, last_price) ==
    [tag |-> "dict", title |-> title, subtitle |-> subtitle, ticker |-> ticker,
     yes_ask |-> yes_ask, yes_bid |-> yes_bid, last_price |-> last_price]

\* a Kalshi payload that is an object: payload.get("markets")
KalshiPayload(markets) == [tag |-> "dict", markets |-> markets]

\* a str and what json.loads makes of it
JsonStr(s, value) == [tag |-> "str", val |-> s, json |-> value]

\* a market the second endpoint lists, matching by its ticker
SecondEndpointMarket ==
    KalshiMarket(None, None, PyStr(<<"S", "E", "N", "A", "T", "E", "-", "O",
                                     "H", "I", "O", "-", "P", "R", "I", "M",
                                     "A", "R", "Y", "-", "2", "6">>),
                 None, None, PyStr(<<"4", "1">>))

InitMarkets ==
    /\ pc = "call"
    /\ LET \* three matching markets of liquidity 2500.5, "900" and none, a market
           \* that is no primary market, a matching market whose liquidity is no
           \* number, and an entry that is no market
           PolyEntries ==
               {PolyMarket(PyStr(<<"O", "h", "i", "o", " ", "S", "e", "n",
                                   "a", "t", "e", " ", "R", "e", "p", "u",
                                   "b", "l", "i", "c", "a", "n", " ", "p",
                                   "r", "i", "m", "a", "r", "y", " ", "w",
                                   "i", "n", "n", "e", "r", "?">>), None,
                           PyNum(Dec(25005, 1)), PyStr(<<"o", "h", "-", "g",
                                                         "o", "p">>),
                           JsonStr(<<"[", "\"", "0", ".", "6", "2", "\"",
                                     ",", " ", "\"", "0", ".", "3", "8",
                                     "\"", "]">>,
                                   PyList(<<PyStr(<<"0", ".", "6", "2">>), PyStr(<<"0",
                                                                                   ".",
                                                                                   "3",
                                                                                   "8">>)>>)), None),
                PolyMarket(None, PyStr(<<"O", "H", "I", "O", " ", "S", "E",
                                         "N", "A", "T", "E", " ", "N", "O",
                                         "M", "I", "N", "A", "T", "I", "O",
                                         "N">>),
                           PyStr(<<"9", "0", "0">>), None, PyList(<<PyNum(Dec(55, 0))>>), None),
                PolyMarket(PyStr(<<"O", "h", "i", "o", " ", "S", "e", "n",
                                   "a", "t", "e", " ", "D", "e", "m", "o",
                                   "c", "r", "a", "t", "i", "c", " ", "p",
                                   "r", "i", "m", "a", "r", "y">>), None,
                           None, PyStr(<<"o", "h", "-", "d", "e", "m">>), JsonStr(<<"n",
                                                                                    "/",
                                                                                    "a">>, Raised),
                           PyNum(Dec(4, 1))),
                PolyMarket(PyStr(<<"O", "h", "i", "o", " ", "S", "e", "n",
                                   "a", "t", "e", " ", "e", "l", "e", "c",
                                   "t", "i", "o", "n", " ", "w", "i", "n",
                                   "n", "e", "r">>), None,
                           PyNum(Dec(99999, 0)), PyStr(<<"o", "h", "-", "g",
                                                         "e", "n", "e", "r",
                                                         "a", "l">>), None, None),
                PolyMarket(PyStr(<<"O", "h", "i", "o", " ", "S", "e", "n",
                                   "a", "t", "e", " ", "p", "r", "i", "m",
                                   "a", "r", "y", " ", "t", "u", "r", "n",
                                   "o", "u", "t">>), None,
                           PyStr(<<"n", "/", "a">>), None, None, None),
                PyStr(<<"c", "l", "o", "s", "e", "d">>)}
           \* two matching markets, one by its title and one by its subtitle, and a
           \* market of another office
           KalshiEntries ==
               {KalshiMarket(PyStr(<<"O", "h", "i", "o", " ", "S", "e", "n",
                                     "a", "t", "e", " ", "p", "r", "i", "m",
                                     "a", "r", "y", ":", " ", "R", "e", "p",
                                     "u", "b", "l", "i", "c", "a", "n", " ",
                                     "n", "o", "m", "i", "n", "e", "e">>), None,
                             PyStr(<<"S", "E", "N", "O", "H", "-", "R">>), PyNum(Dec(62, 0)), None, None),
                KalshiMarket(None, PyStr(<<"O", "h", "i", "o", " ", "S",
                                           "e", "n", "a", "t", "e", " ",
                                           "N", "o", "m", "i", "n", "a",
                                           "t", "i", "o", "n", " ", "(",
                                           "D", ")">>), None,
                             PyNum(Zero), PyNum(Dec(3, 1)), None),
                KalshiMarket(PyStr(<<"O", "h", "i", "o", " ", "G", "o", "v",
                                     "e", "r", "n", "o", "r", " ", "p", "r",
                                     "i", "m", "a", "r", "y">>), None,
                             PyStr(<<"G", "O", "V", "O", "H">>), None, None, PyNum(Dec(12, 0)))}
       IN \/ arg \in {[fn |-> "get_polymarket", state_name |-> <<"O", "h",
                                                                 "i", "o">>,
                       answers |-> <<answer>>] :
                        answer \in {Raised, PyObj, KalshiPayload(None)} \cup
                          {PyList(ms) : ms \in UNION {[1..n -> PolyEntries] :
                                                        n \in 0..MaxMarkets}}}
          \/ arg \in {[fn |-> "get_kalshi", state_name |-> <<"O", "h", "i",
                                                             "o">>,
                       answers |-> <<first, second>>] :
                        first \in {Raised, PyObj, KalshiPayload(None),
                                   PyList(<<PyObj>>)} \cup
                          UNION {{PyList(ms), KalshiPayload(PyList(ms))} :
                                   ms \in UNION {[1..n -> KalshiEntries] :
                                                   n \in 0..MaxMarkets}},
                        second \in
                          {Raised,
                           PyList(<<SecondEndpointMarket>>),
                           KalshiPayload(PyList(<<SecondEndpointMarket,
                                                  SecondEndpointMarket>>)),
                           KalshiPayload(None),
                           PyList(<<PyObj>>)}}
    /\ ret = None
    /\ IdleTracker /\ IdleRaceData

CallGetPolymarket ==
    /\ pc = "call"
    /\ arg.fn = "get_polymarket"
    /\ pc' = "done"
    /\ ret' = get_polymarket(arg.state_name, arg.answers[1])
    /\ UNCHANGED <<arg, trackerVars, raceDataVars>>

CallGetKalshi ==
    /\ pc = "call"
    /\ arg.fn = "get_kalshi"
    /\ pc' = "done"
    /\ ret' = get_kalshi(arg.state_name, arg.answers)
    /\ UNCHANGED <<arg, trackerVars, raceDataVars>>

SpecMarkets == InitMarkets /\ [][CallGetPolymarket \/ CallGetKalshi]_vars

----------------------------------------------------------------------------
(* The market matchers: failures and the records returned *)

\* a step of get_polymarket raises: the fetch, the iteration of an answer
\* that is no list, the lookup in an entry that is no market, or the
\* conversion of the liquidity of a matching market
PolymarketRaises(state_name, answer) ==
    \/ answer.tag # "list"
    \/ \E i \in 1..Len(answer.val) :
         LET Unranked(mkt) ==
                 /\ TitleMatches(PolymarketTitle(mkt, <<>>), state_name)
                 /\ Truthy(mkt.liquidity)
                 /\ float_any(mkt.liquidity) = Raised
             Bad(entry) == entry.tag # "dict" \/ Unranked(entry)
         IN Bad(answer.val[i])

\* what a Kalshi endpoint answers holds a list, or None
KalshiListing(answer) ==
    LET Of(markets) == IF markets.tag = "list" THEN markets ELSE None
    IN IF answer = Raised THEN None
       ELSE Of(IF answer.tag = "dict" THEN answer.markets ELSE answer)

\* a Kalshi endpoint fails or answers what is no list of markets
NoMarketList(answer) ==
    LET Broken(listing) ==
            \/ listing = None
            \/ \E i \in 1..Len(listing.val) : listing.val[i].tag # "dict"
    IN Broken(KalshiListing(answer))

\* the titles under which the markets of a Kalshi endpoint are returned
KalshiTitles(answer) ==
    IF NoMarketList(answer) THEN {}
    ELSE LET Of(ms) == {KalshiTitle(ms[i], <<"M", "a", "r", "k", "e", "t">>) : i \in 1..Len(ms)}
         IN Of(KalshiListing(answer).val)

\* the liquidity of the market listed under a title
LiquidityOf(ms, title) ==
    LET At(i) == LiquidityOrZero(ms[i])
    IN At(CHOOSE i \in 1..Len(ms) :
            ms[i].tag = "dict" /\ PolymarketTitle(ms[i], <<"M", "a", "r",
                                                           "k", "e", "t">>) = title)

\* C9: no failure leaves a market matcher: get_polymarket returns the
\* empty list whenever its fetch or a step of processing the listing
\* raises (no partly filled result), and get_kalshi returns the empty list
\* when each of its two endpoints fails or answers what is no list of
\* markets.
C9_MatchersAbsorbFailures ==
    pc = "done" =>
      /\ (arg.fn = "get_polymarket"
          /\ PolymarketRaises(arg.state_name, arg.answers[1])) => ret = <<>>
      /\ (arg.fn = "get_kalshi"
          /\ \A k \in 1..2 : NoMarketList(arg.answers[k])) => ret = <<>>

\* the listing opens with a matching market that can be ranked and holds a
\* matching market whose liquidity cannot; nothing is returned
C9_Witness ==
    /\ pc = "done"
    /\ arg.fn = "get_polymarket"
    /\ arg.answers[1].tag = "list"
    /\ Len(arg.answers[1].val) >= 2
    /\ ~PolymarketRaises(arg.state_name, PyList(<<arg.answers[1].val[1]>>))
    /\ TitleMatches(PolymarketTitle(arg.answers[1].val[1], <<>>), arg.state_name)
    /\ \A i \in 1..Len(arg.answers[1].val) : arg.answers[1].val[i].tag = "dict"
    /\ PolymarketRaises(arg.state_name, arg.answers[1])
    /\ ret = <<>>

\* C10: each matcher returns at most 4 records, each under a title that
\* contains, ignoring case, "senate", the state name and "primary" or
\* "nomination"; get_polymarket returns the matching markets of highest
\* liquidity in descending order of liquidity, and the records of
\* get_kalshi come from one endpoint, the second one only when the first
\* produced no record.
C10_AtMostFourMatching ==
    pc = "done" =>
      /\ Len(ret) <= 4
      /\ \A i \in 1..Len(ret) :
           /\ Contains(lower(ret[i].title), <<"s", "e", "n", "a", "t", "e">>)
           /\ Contains(lower(ret[i].title), lower(arg.state_name))
           /\ \/ Contains(lower(ret[i].title), <<"p", "r", "i", "m", "a",
                                                 "r", "y">>)
              \/ Contains(lower(ret[i].title), <<"n", "o", "m", "i", "n",
                                                 "a", "t", "i", "o", "n">>)
      /\ (arg.fn = "get_polymarket"
          /\ ~PolymarketRaises(arg.state_name, arg.answers[1])) =>
           LET ms == arg.answers[1].val
               matching == {i \in 1..Len(ms) :
                              TitleMatches(PolymarketTitle(ms[i], <<>>),
                                           arg.state_name)}
           IN /\ Len(ret) = IF Cardinality(matching) < 4
                            THEN Cardinality(matching) ELSE 4
              /\ \A i \in 1..Len(ret) : \A j \in 1..Len(ret) :
                   i < j => ~DecLess(LiquidityOf(ms, ret[i].title),
                                     LiquidityOf(ms, ret[j].title))
              /\ \A i \in matching : \A j \in 1..Len(ret) :
                   \/ \E k \in 1..Len(ret) :
                        ret[k].title = PolymarketTitle(ms[i], <<"M", "a",
                                                                "r", "k",
                                                                "e", "t">>)
                   \/ ~DecLess(LiquidityOf(ms, ret[j].title),
                               LiquidityOrZero(ms[i]))
      /\ arg.fn = "get_kalshi" =>
           \E k \in 1..2 :
             /\ \A i \in 1..Len(ret) :
                  ret[i].title \in KalshiTitles(arg.answers[k])
             /\ k = 2 =>
                  \A t \in KalshiTitles(arg.answers[1]) :
                    ~TitleMatches(t, arg.state_name)
             /\ ret = <<>> =>
                  \A t \in KalshiTitles(arg.answers[k]) :
                    ~TitleMatches(t, arg.state_name)

\* five matching markets are listed, four are returned, and the first
\* returned is not the first listed
C10_Witness ==
    /\ pc = "done"
    /\ arg.fn = "get_polymarket"
    /\ arg.answers[1].tag = "list"
    /\ Len(arg.answers[1].val) = 5
    /\ ~PolymarketRaises(arg.state_name, arg.answers[1])
    /\ \A i \in 1..5 :
         TitleMatches(PolymarketTitle(arg.answers[1].val[i], <<>>),
                      arg.state_name)
    /\ Len(ret) = 4
    /\ ret[1].title # PolymarketTitle(arg.answers[1].val[1], <<"M", "a",
                                                               "r", "k",
                                                               "e", "t">>)
    /\ DecLess(LiquidityOf(arg.answers[1].val, ret[4].title),
               LiquidityOf(arg.answers[1].val, ret[1].title))

----------------------------------------------------------------------------
(* update_race_data.py: parse_rss, get_storylines                          *)
(*                                                                         *)
(* What a feed answers is Raised (the fetch fails or the text is no XML)   *)
(* or the parsed document [tag |-> "rss", channel]: channel is None or the *)
(* list of its items.  An item holds, for title, link, pubDate and source, *)
(* the text of that element as a str, or None when it has none.  A pubDate *)
(* carries, as parsed, the ISO date email.utils.parsedate_to_datetime      *)
(* makes of it, or Raised when it is no date.                              *)

\* the items parse_rss reads of a feed: limit=12
MaxFeedRead == 12

\* the most storylines returned
MaxStorylines == 4

\* urllib.parse.quote of a text of letters, digits and blanks
quote(s) == Replace(s, <<" ">>, <<"%", "2", "0">>)

\* (item.findtext(name) or "").strip()
ItemText(v) == IF v = None THEN <<>> ELSE Strip(v.val)

\* lines 338 and 344-347: the title of an item, cut at " - " and freed of
\* a CDATA[ ... ] wrapping
NormalizedTitle(item) ==
    LET \* s.rstrip("]")
        RStripBracket(s) ==
            SubSeq(s, 1, Len(s) - (CHOOSE n \in 0..Len(s) :
                                     /\ \A k \in 1..n : s[Len(s) + 1 - k] = "]"
                                     /\ (n < Len(s) => s[Len(s) - n] # "]")))
        Unwrapped(t) ==
            IF StartsWith(t, <<"C", "D", "A", "T", "A", "[">>)
            THEN RStripBracket(Replace(t, <<"C", "D", "A", "T", "A", "[">>, <<>>))
            ELSE t
        Headline(t, at) ==
            Unwrapped(IF at = 0 THEN t ELSE SubSeq(t, 1, at - 1))
        Of(t) == Headline(t, Find(t, <<" ", "-", " ">>, 1))
    IN Of(ItemText(item.title))

\* the dedup key of a storyline that compares titles as they are
ExactKey(point) == point

\* item["point"].lower(), the key under which a storyline counts as seen
StorylineKey(point) == lower(point)

\* the list of records as a list value, or Raised
parse_rss(answer, state_name, limit) ==
    LET Date(pub_date, parsed) ==
            IF pub_date = <<>> THEN <<>>
            ELSE IF parsed = Raised THEN pub_date ELSE parsed
        Record(item, title) ==
            [point |-> title,
             date |-> Date(ItemText(item.pubDate),
                           IF item.pubDate = None THEN Raised
                           ELSE item.pubDate.parsed),
             source |-> ItemText(item.source),
             url |-> ItemText(item.link)]
        Read(items) ==
            [i \in 1..Len(items) |-> Record(items[i], NormalizedTitle(items[i]))]
        Kept(rec) ==
            /\ Contains(lower(rec.point), lower(state_name))
            /\ rec.point # <<>>
            /\ rec.url # <<>>
        Channel(items) == PyList(SelectSeq(Read(Take(items, limit)), Kept))
    IN IF answer = Raised THEN Raised
       ELSE IF answer.channel = None THEN PyList(<<>>)
       ELSE Channel(answer.channel.val)

\* lines 381-393, one turn of the loop over the feeds: the records of a feed
\* join out unless their title was seen, until four are collected; a feed
\* that raises leaves out as it is
FeedTurn(out, parsed) ==
    LET Seen(sofar, key) ==
            \E k \in 1..Len(sofar) : StorylineKey(sofar[k].point) = key
        Item(sofar, item) ==
            IF Len(sofar) >= MaxStorylines
               \/ Seen(sofar, StorylineKey(item.point))
            THEN sofar
            ELSE Append(sofar, item)
        Items(items) ==
            LET acc[i \in 0..Len(items)] ==
                    IF i = 0 THEN out ELSE Item(acc[i - 1], items[i])
            IN acc[Len(items)]
    IN IF parsed = Raised THEN out ELSE Items(parsed.val)

\* a loop over the feeds that never ends early
BothFeedsFetched(state_name, answers) == <<1, 2>>

\* lines 381-393: the feeds the loop fetches, by their position in the list
\* of feed urls; "if len(out) >= 4: break" ends the loop before the second
FeedsFetched(state_name, answers) ==
    LET After(out) == IF Len(out) >= MaxStorylines THEN <<1>> ELSE <<1, 2>>
    IN After(FeedTurn(<<>>, parse_rss(answers[1], state_name, MaxFeedRead)))

get_storylines(state_name, answers) ==
    LET query == quote(state_name \o <<" ", "S", "e", "n", "a", "t", "e",
                                       " ", "r", "a", "c", "e", " ", "2",
                                       "0", "2", "6", " ", "p", "r", "i",
                                       "m", "a", "r", "y">>)
        Placeholders(q) ==
            << [point |-> <<"T", "r", "a", "c", "k", " ", "t", "h", "e",
                            " ", "l", "a", "t", "e", "s", "t", " ">> \o state_name
                          \o <<" ", "S", "e", "n", "a", "t", "e", " ", "p",
                               "r", "i", "m", "a", "r", "y", " ", "c", "o",
                               "v", "e", "r", "a", "g", "e", " ", "(", "G",
                               "o", "o", "g", "l", "e", " ", "N", "e", "w",
                               "s", ")", ".">>,
                date |-> <<>>,
                source |-> <<"G", "o", "o", "g", "l", "e", " ", "N", "e",
                             "w", "s">>,
                url |-> <<"h", "t", "t", "p", "s", ":", "/", "/", "n", "e",
                          "w", "s", ".", "g", "o", "o", "g", "l", "e", ".",
                          "c", "o", "m", "/", "s", "e", "a", "r", "c", "h",
                          "?", "q", "=">> \o q
                        \o <<"&", "h", "l", "=", "e", "n", "-", "U", "S",
                             "&", "g", "l", "=", "U", "S", "&", "c", "e",
                             "i", "d", "=", "U", "S", "%", "3", "A", "e",
                             "n">>],
               [point |-> <<"T", "r", "a", "c", "k", " ", "t", "h", "e",
                            " ", "l", "a", "t", "e", "s", "t", " ">> \o state_name
                          \o <<" ", "S", "e", "n", "a", "t", "e", " ", "p",
                               "r", "i", "m", "a", "r", "y", " ", "c", "o",
                               "v", "e", "r", "a", "g", "e", " ", "(", "B",
                               "i", "n", "g", " ", "N", "e", "w", "s", ")",
                               ".">>,
                date |-> <<>>,
                source |-> <<"B", "i", "n", "g", " ", "N", "e", "w", "s">>,
                url |-> <<"h", "t", "t", "p", "s", ":", "/", "/", "w", "w",
                          "w", ".", "b", "i", "n", "g", ".", "c", "o", "m",
                          "/", "n", "e", "w", "s", "/", "s", "e", "a", "r",
                          "c", "h", "?", "q", "=">> \o q],
               [point |-> <<"R", "e", "v", "i", "e", "w", " ", "c", "a",
                            "m", "p", "a", "i", "g", "n", " ", "r", "e",
                            "p", "o", "r", "t", "i", "n", "g", " ", "a",
                            "n", "d", " ", "u", "p", "d", "a", "t", "e",
                            "s", " ", "f", "o", "r", " ", "t", "h", "e",
                            " ">>
                          \o state_name \o <<" ", "r", "a", "c", "e", ".">>,
                date |-> <<>>,
                source |-> <<"N", "e", "w", "s", " ", "s", "e", "a", "r",
                             "c", "h">>,
                url |-> <<"h", "t", "t", "p", "s", ":", "/", "/", "d", "u",
                          "c", "k", "d", "u", "c", "k", "g", "o", ".", "c",
                          "o", "m", "/", "?", "q", "=">> \o q] >>
        \* the second turn of the loop, unless four records are collected
        Second(out) ==
            IF Len(out) >= MaxStorylines THEN out
            ELSE FeedTurn(out, parse_rss(answers[2], state_name, MaxFeedRead))
        Both(out) == IF out = <<>> THEN Placeholders(query) ELSE out
    IN Both(Second(FeedTurn(<<>>, parse_rss(answers[1], state_name,
                                            MaxFeedRead))))

----------------------------------------------------------------------------
(* get_storylines on two feeds *)

\* most items of the first feed after its leading items
MaxFeedItems == 3

\* the leading items of a long first feed, none of them on the state
LeadingItems == 10

FeedItem(title, link, pubDate, source) ==
    [title |-> title, link |-> link, pubDate |-> pubDate, source |-> source]

\* a pubDate and what parsedate_to_datetime makes of it
DateStr(s, parsed) == [tag |-> "str", val |-> s, parsed |-> parsed]

Rss(items) == [tag |-> "rss", channel |-> PyList(items)]

InitStorylines ==
    /\ pc = "call"
    /\ LET \* a headline with its source, the same headline in capitals, the same
           \* headline without a link, a wrapped headline, a headline of its own
           FirstFeedItems ==
               {FeedItem(PyStr(<<" ", "O", "h", "i", "o", " ", "S", "e",
                                 "n", "a", "t", "e", " ", "p", "r", "i",
                                 "m", "a", "r", "y", " ", "h", "e", "a",
                                 "t", "s", " ", "u", "p", " ", "-", " ",
                                 "C", "l", "e", "v", "e", "l", "a", "n",
                                 "d", " ", "N", "e", "w", "s">>),
                         PyStr(<<"h", "t", "t", "p", "s", ":", "/", "/",
                                 "a", ".", "e", "x", "a", "m", "p", "l",
                                 "e", "/", "1">>),
                         DateStr(<<"M", "o", "n", ",", " ", "0", "2", " ",
                                   "M", "a", "r", " ", "2", "0", "2", "6",
                                   " ", "1", "0", ":", "0", "0", ":", "0",
                                   "0", " ", "G", "M", "T">>, <<"2", "0",
                                                                "2", "6",
                                                                "-", "0",
                                                                "3", "-",
                                                                "0", "2">>),
                         PyStr(<<"C", "l", "e", "v", "e", "l", "a", "n",
                                 "d", " ", "N", "e", "w", "s">>)),
                FeedItem(PyStr(<<"O", "H", "I", "O", " ", "S", "E", "N",
                                 "A", "T", "E", " ", "P", "R", "I", "M",
                                 "A", "R", "Y", " ", "H", "E", "A", "T",
                                 "S", " ", "U", "P">>),
                         PyStr(<<"h", "t", "t", "p", "s", ":", "/", "/",
                                 "b", ".", "e", "x", "a", "m", "p", "l",
                                 "e", "/", "2">>), None, None),
                FeedItem(PyStr(<<"O", "h", "i", "o", " ", "S", "e", "n",
                                 "a", "t", "e", " ", "p", "r", "i", "m",
                                 "a", "r", "y", " ", "h", "e", "a", "t",
                                 "s", " ", "u", "p">>), None, None,
                         PyStr(<<"W", "i", "r", "e">>)),
                FeedItem(PyStr(<<"C", "D", "A", "T", "A", "[", "O", "h",
                                 "i", "o", " ", "d", "e", "b", "a", "t",
                                 "e", " ", "s", "e", "t", "]", "]">>),
                         PyStr(<<" ", "h", "t", "t", "p", "s", ":", "/",
                                 "/", "e", ".", "e", "x", "a", "m", "p",
                                 "l", "e", "/", "5", " ">>),
                         DateStr(<<"s", "o", "o", "n">>, Raised), PyStr(<<>>)),
                FeedItem(PyStr(<<"O", "h", "i", "o", " ", "t", "u", "r",
                                 "n", "o", "u", "t", " ", "r", "i", "s",
                                 "e", "s">>),
                         PyStr(<<"h", "t", "t", "p", "s", ":", "/", "/",
                                 "g", ".", "e", "x", "a", "m", "p", "l",
                                 "e", "/", "7">>), None, None)}
           \* items of the second feed: a headline the first feed may hold, and three
           \* of its own
           SecondFeedItems ==
               << FeedItem(PyStr(<<"O", "h", "i", "o", " ", "d", "e", "b",
                                   "a", "t", "e", " ", "s", "e", "t", " ",
                                   "-", " ", "D", "i", "s", "p", "a", "t",
                                   "c", "h">>),
                           PyStr(<<"h", "t", "t", "p", "s", ":", "/", "/",
                                   "f", ".", "e", "x", "a", "m", "p", "l",
                                   "e", "/", "6">>), None, PyStr(<<"D", "i",
                                                                   "s", "p",
                                                                   "a", "t",
                                                                   "c",
                                                                   "h">>)),
                  FeedItem(PyStr(<<"O", "h", "i", "o", " ", "f", "i", "l",
                                   "i", "n", "g", " ", "d", "e", "a", "d",
                                   "l", "i", "n", "e", " ", "n", "e", "a",
                                   "r", "s">>),
                           PyStr(<<"h", "t", "t", "p", "s", ":", "/", "/",
                                   "h", ".", "e", "x", "a", "m", "p", "l",
                                   "e", "/", "8">>), None, None),
                  FeedItem(PyStr(<<"o", "h", "i", "o", " ", "s", "e", "n",
                                   "a", "t", "e", " ", "p", "r", "i", "m",
                                   "a", "r", "y", " ", "h", "e", "a", "t",
                                   "s", " ", "u", "p">>),
                           PyStr(<<"h", "t", "t", "p", "s", ":", "/", "/",
                                   "i", ".", "e", "x", "a", "m", "p", "l",
                                   "e", "/", "9">>), None, None),
                  FeedItem(PyStr(<<"O", "h", "i", "o", " ", "a", "d", " ",
                                   "s", "p", "e", "n", "d", "i", "n", "g",
                                   " ", "c", "l", "i", "m", "b", "s">>),
                           PyStr(<<"h", "t", "t", "p", "s", ":", "/", "/",
                                   "j", ".", "e", "x", "a", "m", "p", "l",
                                   "e", "/", "1", "0">>), None, None),
                  FeedItem(PyStr(<<"O", "h", "i", "o", " ", "e", "a", "r",
                                   "l", "y", " ", "v", "o", "t", "e", " ",
                                   "o", "p", "e", "n", "s">>),
                           PyStr(<<"h", "t", "t", "p", "s", ":", "/", "/",
                                   "k", ".", "e", "x", "a", "m", "p", "l",
                                   "e", "/", "1", "1">>), None, None) >>
       IN arg \in {[state_name |-> <<"O", "h", "i", "o">>, answers |-> <<first, second>>] :
                     first \in {Raised, [tag |-> "rss", channel |-> None]} \cup
                       {Rss(lead \o items) :
                          lead \in {<<>>,
                                    [i \in 1..LeadingItems |->
                                       FeedItem(PyStr(<<"T", "e", "x", "a",
                                                        "s", " ", "v", "o",
                                                        "t", "e", "s">>),
                                                PyStr(<<"h", "t", "t", "p",
                                                        "s", ":", "/", "/",
                                                        "w", ".", "e", "x",
                                                        "a", "m", "p", "l",
                                                        "e">>),
                                                None, None)],
                                    << FeedItem(PyStr(<<"O", "h", "i", "o",
                                                        " ", "p", "o", "l",
                                                        "l", " ", "t", "i",
                                                        "g", "h", "t", "e",
                                                        "n", "s">>),
                                                PyStr(<<"h", "t", "t", "p",
                                                        "s", ":", "/", "/",
                                                        "l", ".", "e", "x",
                                                        "a", "m", "p", "l",
                                                        "e", "/", "1", "2">>),
                                                None, None),
                                       FeedItem(PyStr(<<"O", "h", "i", "o",
                                                        " ", "r", "a", "l",
                                                        "l", "y", " ", "d",
                                                        "r", "a", "w", "s",
                                                        " ", "c", "r", "o",
                                                        "w", "d">>),
                                                PyStr(<<"h", "t", "t", "p",
                                                        "s", ":", "/", "/",
                                                        "m", ".", "e", "x",
                                                        "a", "m", "p", "l",
                                                        "e", "/", "1", "3">>),
                                                None, None) >>},
                          items \in UNION {[1..n -> FirstFeedItems] :
                                             n \in 0..MaxFeedItems}},
                     second \in {Raised, [tag |-> "rss", channel |-> None]} \cup
                       {Rss(SubSeq(SecondFeedItems, a, b)) :
                          a \in {1, 2}, b \in {0, 1, 3, 5}}}
    /\ ret = None
    /\ IdleTracker /\ IdleRaceData

CallGetStorylines ==
    /\ pc = "call"
    /\ pc' = "done"
    /\ ret' = get_storylines(arg.state_name, arg.answers)
    /\ fetched' = FeedsFetched(arg.state_name, arg.answers)
    /\ UNCHANGED <<arg, races, race_i, raceDataVars>>

SpecStorylines == InitStorylines /\ [][CallGetStorylines]_vars

----------------------------------------------------------------------------
(* get_storylines: one record per normalized title *)

\* every item of a feed, in feed order
ItemsListed(answer) ==
    IF answer = Raised THEN <<>>
    ELSE IF answer.channel = None THEN <<>>
    ELSE answer.channel.val

\* the records parse_rss returns for a feed, none when it raises
ItemsRead(answer, state_name) ==
    LET Of(parsed) == IF parsed = Raised THEN <<>> ELSE parsed.val
    IN Of(parse_rss(answer, state_name, MaxFeedRead))

\* no two records have titles that are equal ignoring case
NoTitleTwice(records) ==
    \A i \in 1..Len(records) : \A j \in 1..Len(records) :
      i < j => lower(records[i].point) # lower(records[j].point)

\* C6 as stated: no two records of get_storylines have titles that are equal
\* ignoring case, and a record taken from the feeds is the first item, of
\* all the items of the first feed followed by all the items of the second,
\* that has its normalized title.
C6_FirstOfAllItems ==
    pc = "done" =>
      /\ NoTitleTwice(ret)
      /\ LET First(listed, rec) ==
                 LET at == {k \in 1..Len(listed) :
                              lower(NormalizedTitle(listed[k])) = lower(rec.point)}
                 IN /\ at # {}
                    /\ rec.url = ItemText(listed[CHOOSE k \in at :
                                                   \A l \in at : k <= l].link)
             Live(listed) == \A i \in 1..Len(ret) : First(listed, ret[i])
         IN (ItemsRead(arg.answers[1], arg.state_name)
               \o ItemsRead(arg.answers[2], arg.state_name) # <<>>)
              => Live(ItemsListed(arg.answers[1]) \o ItemsListed(arg.answers[2]))

\* C6: no two records of get_storylines have titles that are equal ignoring
\* case; a record taken from the feeds is the first, of the records
\* parse_rss returns for the first feed followed by those it returns for the
\* second, that has its normalized title, and the records keep that order.
C6_FirstOfItemsRead ==
    pc = "done" =>
      /\ NoTitleTwice(ret)
      /\ LET Keys(records) ==
                 [k \in 1..Len(records) |-> lower(records[k].point)]
             FirstAt(keys, key) ==
                 CHOOSE k \in 1..Len(keys) :
                   keys[k] = key /\ \A l \in 1..(k - 1) : keys[l] # key
             Places(read, keys, mine) ==
                 /\ \A i \in 1..Len(ret) :
                      /\ \E k \in 1..Len(keys) : keys[k] = mine[i]
                      /\ ret[i] = read[FirstAt(keys, mine[i])]
                 /\ \A i \in 1..Len(ret) : \A j \in 1..Len(ret) :
                      i < j => FirstAt(keys, mine[i]) < FirstAt(keys, mine[j])
             Live(read) == read = <<>> \/ Places(read, Keys(read), Keys(ret))
         IN Live(ItemsRead(arg.answers[1], arg.state_name)
                   \o ItemsRead(arg.answers[2], arg.state_name))

\* the first feed holds a headline twice, in two spellings, and the second
\* feed holds it once more; the record of the first is returned
C6_Witness ==
    /\ pc = "done"
    /\ LET Twice(read) ==
               \E k \in 1..Len(read) : \E l \in 1..Len(read) :
                 /\ k < l
                 /\ read[k].point # read[l].point
                 /\ lower(read[k].point) = lower(read[l].point)
                 /\ \A j \in 1..(k - 1) :
                      lower(read[j].point) # lower(read[k].point)
                 /\ \E i \in 1..Len(ret) : ret[i] = read[k]
       IN /\ Twice(ItemsRead(arg.answers[1], arg.state_name))
          /\ \E k \in 1..Len(ItemsRead(arg.answers[2], arg.state_name)) :
               lower(ItemsRead(arg.answers[2], arg.state_name)[k].point)
                 = <<"o", "h", "i", "o", " ", "s", "e", "n", "a", "t", "e",
                     " ", "p", "r", "i", "m", "a", "r", "y", " ", "h", "e",
                     "a", "t", "s", " ", "u", "p">>

----------------------------------------------------------------------------
(* update_race_data.py: parse_ncsl_primary_dates, fmt_mmddyyyy,            *)
(* get_polling_refs, get_poll_toplines, parse_float, summarize_race        *)

\* dt.date(int(year), int(month), int(day)).strftime("%B %-d, %Y") of a
\* text dd/dd/dddd, as a str value; Raised for the ValueError of a day that
\* is no date
fmt_mmddyyyy(mmddyyyy) ==
    LET Names == <<<<"J", "a", "n", "u", "a", "r", "y">>, <<"F", "e", "b",
                                                            "r", "u", "a",
                                                            "r", "y">>, <<"M",
                                                                          "a",
                                                                          "r",
                                                                          "c",
                                                                          "h">>, <<"A",
                                                                                   "p",
                                                                                   "r",
                                                                                   "i",
                                                                                   "l">>, <<"M",
                                                                                            "a",
                                                                                            "y">>,
                   <<"J", "u", "n", "e">>, <<"J", "u", "l", "y">>, <<"A",
                                                                     "u",
                                                                     "g",
                                                                     "u",
                                                                     "s",
                                                                     "t">>, <<"S",
                                                                              "e",
                                                                              "p",
                                                                              "t",
                                                                              "e",
                                                                              "m",
                                                                              "b",
                                                                              "e",
                                                                              "r">>, <<"O",
                                                                                       "c",
                                                                                       "t",
                                                                                       "o",
                                                                                       "b",
                                                                                       "e",
                                                                                       "r">>,
                   <<"N", "o", "v", "e", "m", "b", "e", "r">>, <<"D", "e",
                                                                 "c", "e",
                                                                 "m", "b",
                                                                 "e", "r">>>>
        Leap(y) == y % 4 = 0 /\ (y % 100 # 0 \/ y % 400 = 0)
        Days(m, y) ==
            IF m = 2 THEN (IF Leap(y) THEN 29 ELSE 28)
            ELSE IF m \in {4, 6, 9, 11} THEN 30 ELSE 31
        Date(year, month, day) ==
            IF year >= 1 /\ month \in 1..12 /\ day >= 1 /\ day <= Days(month, year)
            THEN PyStr(Names[month] \o <<" ">> \o IntStr(day) \o <<",", " ">>
                       \o IntStr(year))
            ELSE Raised
    IN Date(DigitsValue(SubSeq(mmddyyyy, 7, 10), 0),
            DigitsValue(SubSeq(mmddyyyy, 1, 2), 0),
            DigitsValue(SubSeq(mmddyyyy, 4, 5), 0))

\* re.findall(r">([A-Za-z ]+)</td>\s*<td>\s*([0-9]{2}/[0-9]{2}/[0-9]{4})\s*</td>",
\* raw): the pairs of groups of every match from index i on
RECURSIVE DateRows(_, _)
DateRows(s, i) ==
    LET IsNameChar(c) ==
            c = " " \/ \E k \in 1..26 : Upper[k] = c \/ Lower[k] = c
        \* first index at or after j that holds no character of the class
        After(j, In(_)) ==
            CHOOSE e \in j..(Len(s) + 1) :
              /\ \A k \in j..(e - 1) : In(s[k])
              /\ (e <= Len(s) => ~In(s[e]))
        Lit(j, text) == SubSeq(s, j, j + Len(text) - 1) = text
        IsDate(d) ==
            /\ Len(d) = 10
            /\ \A k \in {1, 2, 4, 5, 7, 8, 9, 10} : IsDigit(d[k])
            /\ d[3] = "/" /\ d[6] = "/"
        \* the match that starts at the ">" of index a: its end, 0 for none
        Closed(c) == IF Lit(c, <<"<", "/", "t", "d", ">">>) THEN c + 4 ELSE 0
        Dated(d) ==
            IF IsDate(SubSeq(s, d, d + 9)) THEN Closed(After(d + 10, IsSpace))
            ELSE 0
        Cell(b) == IF Lit(b, <<"<", "t", "d", ">">>) THEN Dated(After(b + 4, IsSpace)) ELSE 0
        Named(a, n) ==
            IF n > a + 1 /\ Lit(n, <<"<", "/", "t", "d", ">">>) THEN Cell(After(n + 5, IsSpace))
            ELSE 0
        DateAt(a, n) == After(After(n + 5, IsSpace) + 4, IsSpace)
        Next(a, n, e) ==
            IF e = 0 THEN DateRows(s, a + 1)
            ELSE << <<SubSeq(s, a + 1, n - 1),
                      SubSeq(s, DateAt(a, n), DateAt(a, n) + 9)>> >>
                 \o DateRows(s, e + 1)
        Match(a, n) == Next(a, n, Named(a, n))
        From(a) == IF a = 0 THEN <<>> ELSE Match(a, After(a + 1, IsNameChar))
    IN From(Find(s, <<">">>, i))

\* a lookup that never reads the dates page
DefaultDatesOnly(answer) == ALL_DEFAULT_PRIMARY_DATES

\* the lookup of primary dates: a dict of records [code, date]
parse_ncsl_primary_dates(answer) ==
    LET \* STATE_TO_CODE[state_name] as a str value, None for a name it lacks
        Code(names, state_name) ==
            IF \E k \in 1..Len(names) : names[k].state_name = state_name
            THEN PyStr(names[CHOOSE k \in 1..Len(names) :
                               names[k].state_name = state_name].code)
            ELSE None
        \* one turn of the loop; the ValueError of a date ends the loop
        Dated(before, code, date) ==
            IF date = Raised THEN [dates |-> before.dates, raised |-> TRUE]
            ELSE [dates |-> Put(before.dates,
                                [code |-> code.val, date |-> date.val]),
                  raised |-> FALSE]
        Turn(before, code, date_val) ==
            IF before.raised \/ code = None THEN before
            ELSE Dated(before, code, fmt_mmddyyyy(date_val))
        Live(found) ==
            LET acc[i \in 0..Len(found)] ==
                    IF i = 0 THEN [dates |-> <<>>, raised |-> FALSE]
                    ELSE Turn(acc[i - 1],
                              Code(STATE_TO_CODE, unescape(Strip(found[i][1]))),
                              found[i][2])
            IN acc[Len(found)].dates
        \* merged.update(dates)
        Merged(dates) ==
            LET acc[i \in 0..Len(dates)] ==
                    IF i = 0 THEN ALL_DEFAULT_PRIMARY_DATES
                    ELSE Put(acc[i - 1], dates[i])
            IN acc[Len(dates)]
    IN Merged(IF answer = Raised THEN <<>> ELSE Live(DateRows(answer.val, 1)))

\* lines 290-299: the references found on the Wikipedia page of the race,
\* none when the fetch fails
WikiRefsUnguarded(answer, wiki_url) ==
    LET Ref(page, names, source) ==
            IF \E k \in 1..Len(names) : Contains(page, names[k])
            THEN <<[source |-> source, value |-> <<"S", "e", "e", " ", "a",
                                                   "g", "g", "r", "e", "g",
                                                   "a", "t", "e", " ", "o",
                                                   "n", " ", "r", "a", "c",
                                                   "e", " ", "p", "a", "g",
                                                   "e">>,
                    url |-> wiki_url]>>
            ELSE <<>>
        OnPage(page) ==
            PyList(Ref(page, <<<<"R", "e", "a", "l", "C", "l", "e", "a",
                                 "r", "P", "o", "l", "i", "t", "i", "c",
                                 "s">>>>, <<"R", "e", "a", "l", "C", "l",
                                            "e", "a", "r", "P", "o", "l",
                                            "i", "t", "i", "c", "s">>)
                   \o Ref(page, <<<<"R", "a", "c", "e", " ", "t", "o", " ",
                                    "t", "h", "e", " ", "W", "H">>, <<"R",
                                                                      "a",
                                                                      "c",
                                                                      "e",
                                                                      "T",
                                                                      "o",
                                                                      "T",
                                                                      "h",
                                                                      "e",
                                                                      "W",
                                                                      "H">>>>,
                          <<"R", "a", "c", "e", " ", "t", "o", " ", "t",
                            "h", "e", " ", "W", "H">>)
                   \o Ref(page, <<<<"D", "e", "c", "i", "s", "i", "o", "n",
                                    " ", "D", "e", "s", "k", " ", "H", "Q">>>>, <<"D",
                                                                                  "e",
                                                                                  "c",
                                                                                  "i",
                                                                                  "s",
                                                                                  "i",
                                                                                  "o",
                                                                                  "n",
                                                                                  " ",
                                                                                  "D",
                                                                                  "e",
                                                                                  "s",
                                                                                  "k",
                                                                                  " ",
                                                                                  "H",
                                                                                  "Q">>))
    IN IF answer = Raised THEN Raised ELSE OnPage(answer.val)

WikiRefs(answer, wiki_url) ==
    LET Ref(page, names, source) ==
            IF \E k \in 1..Len(names) : Contains(page, names[k])
            THEN <<[source |-> source, value |-> <<"S", "e", "e", " ", "a",
                                                   "g", "g", "r", "e", "g",
                                                   "a", "t", "e", " ", "o",
                                                   "n", " ", "r", "a", "c",
                                                   "e", " ", "p", "a", "g",
                                                   "e">>,
                    url |-> wiki_url]>>
            ELSE <<>>
        OnPage(page) ==
            PyList(Ref(page, <<<<"R", "e", "a", "l", "C", "l", "e", "a",
                                 "r", "P", "o", "l", "i", "t", "i", "c",
                                 "s">>>>, <<"R", "e", "a", "l", "C", "l",
                                            "e", "a", "r", "P", "o", "l",
                                            "i", "t", "i", "c", "s">>)
                   \o Ref(page, <<<<"R", "a", "c", "e", " ", "t", "o", " ",
                                    "t", "h", "e", " ", "W", "H">>, <<"R",
                                                                      "a",
                                                                      "c",
                                                                      "e",
                                                                      "T",
                                                                      "o",
                                                                      "T",
                                                                      "h",
                                                                      "e",
                                                                      "W",
                                                                      "H">>>>,
                          <<"R", "a", "c", "e", " ", "t", "o", " ", "t",
                            "h", "e", " ", "W", "H">>)
                   \o Ref(page, <<<<"D", "e", "c", "i", "s", "i", "o", "n",
                                    " ", "D", "e", "s", "k", " ", "H", "Q">>>>, <<"D",
                                                                                  "e",
                                                                                  "c",
                                                                                  "i",
                                                                                  "s",
                                                                                  "i",
                                                                                  "o",
                                                                                  "n",
                                                                                  " ",
                                                                                  "D",
                                                                                  "e",
                                                                                  "s",
                                                                                  "k",
                                                                                  " ",
                                                                                  "H",
                                                                                  "Q">>))
    IN IF answer = Raised THEN PyList(<<>>) ELSE OnPage(answer.val)

\* the list of references as a list value, or Raised
get_polling_refs(state_name, answer) ==
    LET Search(source, value, url, query) ==
            [source |-> source, value |-> value,
             url |-> url \o quote(state_name \o query)]
        Refs(found) ==
            IF found = Raised THEN Raised
            ELSE PyList(found.val \o
                   << Search(<<"R", "e", "a", "l", "C", "l", "e", "a", "r",
                               "P", "o", "l", "i", "t", "i", "c", "s">>, <<"L",
                                                                           "a",
                                                                           "t",
                                                                           "e",
                                                                           "s",
                                                                           "t",
                                                                           " ",
                                                                           "p",
                                                                           "o",
                                                                           "l",
                                                                           "l",
                                                                           "i",
                                                                           "n",
                                                                           "g",
                                                                           " ",
                                                                           "l",
                                                                           "i",
                                                                           "n",
                                                                           "k",
                                                                           "s">>,
                             <<"h", "t", "t", "p", "s", ":", "/", "/", "w",
                               "w", "w", ".", "r", "e", "a", "l", "c", "l",
                               "e", "a", "r", "p", "o", "l", "i", "t", "i",
                               "c", "s", ".", "c", "o", "m", "/", "s", "e",
                               "a", "r", "c", "h", "/", "?", "q", "=">>,
                             <<" ", "s", "e", "n", "a", "t", "e", " ", "r",
                               "a", "c", "e", " ", "p", "o", "l", "l", "s",
                               " ", "2", "0", "2", "6", " ", "r", "e", "a",
                               "l", "c", "l", "e", "a", "r", "p", "o", "l",
                               "i", "t", "i", "c", "s">>),
                      Search(<<"R", "a", "c", "e", " ", "t", "o", " ", "t",
                               "h", "e", " ", "W", "H">>, <<"P", "o", "l",
                                                            "l", "i", "n",
                                                            "g", " ", "+",
                                                            " ", "f", "o",
                                                            "r", "e", "c",
                                                            "a", "s", "t",
                                                            " ", "s", "e",
                                                            "a", "r", "c",
                                                            "h">>,
                             <<"h", "t", "t", "p", "s", ":", "/", "/", "w",
                               "w", "w", ".", "r", "a", "c", "e", "t", "o",
                               "t", "h", "e", "w", "h", ".", "c", "o", "m",
                               "/", "s", "e", "a", "r", "c", "h", "?", "q",
                               "=">>,
                             <<" ", "s", "e", "n", "a", "t", "e", " ", "r",
                               "a", "c", "e", " ", "2", "0", "2", "6", " ",
                               "p", "o", "l", "l", "i", "n", "g">>),
                      Search(<<"D", "e", "c", "i", "s", "i", "o", "n", " ",
                               "D", "e", "s", "k", " ", "H", "Q">>, <<"P",
                                                                      "o",
                                                                      "l",
                                                                      "l",
                                                                      "i",
                                                                      "n",
                                                                      "g",
                                                                      " ",
                                                                      "a",
                                                                      "g",
                                                                      "g",
                                                                      "r",
                                                                      "e",
                                                                      "g",
                                                                      "a",
                                                                      "t",
                                                                      "e",
                                                                      " ",
                                                                      "s",
                                                                      "e",
                                                                      "a",
                                                                      "r",
                                                                      "c",
                                                                      "h">>,
                             <<"h", "t", "t", "p", "s", ":", "/", "/", "d",
                               "u", "c", "k", "d", "u", "c", "k", "g", "o",
                               ".", "c", "o", "m", "/", "?", "q", "=", "s",
                               "i", "t", "e", "%", "3", "A", "d", "e", "c",
                               "i", "s", "i", "o", "n", "d", "e", "s", "k",
                               "h", "q", ".", "c", "o", "m", "+">>,
                             <<" ", "s", "e", "n", "a", "t", "e", " ", "r",
                               "a", "c", "e", " ", "2", "0", "2", "6", " ",
                               "p", "o", "l", "l", "i", "n", "g", " ", "a",
                               "g", "g", "r", "e", "g", "a", "t", "e">>) >>)
    IN Refs(WikiRefs(answer,
                     <<"h", "t", "t", "p", "s", ":", "/", "/", "e", "n",
                       ".", "w", "i", "k", "i", "p", "e", "d", "i", "a",
                       ".", "o", "r", "g", "/", "w", "i", "k", "i", "/",
                       "2", "0", "2", "6", "_", "U", "n", "i", "t", "e",
                       "d", "_", "S", "t", "a", "t", "e", "s", "_", "S",
                       "e", "n", "a", "t", "e", "_", "e", "l", "e", "c",
                       "t", "i", "o", "n", "_", "i", "n", "_">>
                     \o Replace(state_name, <<" ">>, <<"_">>)))

\* DEFAULT_POLL_TOPLINES.get(state_code, []), copied through JSON: the copy
\* of lists, objects and strs equals the original
get_poll_toplines(state_code) ==
    LET Rows(tables) ==
            IF \E k \in 1..Len(tables) : tables[k].code = state_code
            THEN tables[CHOOSE k \in 1..Len(tables) :
                          tables[k].code = state_code].rows
            ELSE <<>>
    IN Rows(DEFAULT_POLL_TOPLINES)

\* float(str(value).strip().replace("%", "")) of a str, None when it raises
parse_float(value) ==
    LET Value(x) == IF x = Raised THEN None ELSE x
    IN Value(float_str(Replace(Strip(value), <<"%">>, <<>>)))

summarize_race(state_code, state_name, cook_rating, polls_toplines, odds) ==
    LET Markets(poly_n, kalshi_n) ==
            IF poly_n + kalshi_n > 0
            THEN <<"P", "r", "e", "d", "i", "c", "t", "i", "o", "n", " ",
                   "m", "a", "r", "k", "e", "t", " ", "c", "o", "v", "e",
                   "r", "a", "g", "e", " ", "i", "s", " ", "a", "c", "t",
                   "i", "v", "e", " ", "(">> \o IntStr(poly_n)
                 \o <<" ", "P", "o", "l", "y", "m", "a", "r", "k", "e", "t",
                      " ", "/", " ">> \o IntStr(kalshi_n)
                 \o <<" ", "K", "a", "l", "s", "h", "i", " ", "l", "i", "s",
                      "t", "i", "n", "g", "s", " ", "c", "u", "r", "r", "e",
                      "n", "t", "l", "y", " ", "m", "a", "t", "c", "h", "e",
                      "d", ")", ".">>
            ELSE <<"P", "r", "e", "d", "i", "c", "t", "i", "o", "n", " ",
                   "m", "a", "r", "k", "e", "t", " ", "a", "c", "t", "i",
                   "v", "i", "t", "y", " ", "f", "o", "r", " ", "t", "h",
                   "i", "s", " ", "s", "p", "e", "c", "i", "f", "i", "c",
                   " ", "p", "r", "i", "m", "a", "r", "y", " ", "a", "p",
                   "p", "e", "a", "r", "s", " ", "l", "i", "m", "i", "t",
                   "e", "d", " ", "o", "r", " ", "n", "o", "t", " ", "y",
                   "e", "t", " ", "l", "i", "s", "t", "e", "d", " ", "i",
                   "n", " ", "t", "h", "e", " ", "m", "a", "t", "c", "h",
                   "e", "d", " ", "f", "e", "e", "d", "s", ".">>
        Closing ==
            << Markets(Len(odds.polymarket), Len(odds.kalshi)),
               <<"F", "u", "n", "d", "r", "a", "i", "s", "i", "n", "g", " ",
                 "t", "o", "p", "l", "i", "n", "e", "s", " ", "a", "r", "e",
                 " ", "n", "o", "t", " ", "y", "e", "t", " ", "i", "n", "t",
                 "e", "g", "r", "a", "t", "e", "d", " ", "i", "n", " ", "t",
                 "h", "i", "s", " ", "r", "e", "l", "e", "a", "s", "e", ";",
                 " ", "a", "d", "d", "i", "n", "g", " ", "F", "E", "C", " ",
                 "c", "a", "n", "d", "i", "d", "a", "t", "e", " ", "r", "e",
                 "c", "e", "i", "p", "t", "s", "/", "d", "i", "s", "b", "u",
                 "r", "s", "e", "m", "e", "n", "t", "s", " ", "i", "s", " ",
                 "t", "h", "e", " ", "n", "e", "x", "t", " ", "d", "a", "t",
                 "a", " ", "u", "p", "g", "r", "a", "d", "e", ".">> >>
        Latest(rows) ==
            IF Len(rows) > 1
            THEN <<<<"L", "a", "t", "e", "s", "t", " ", "l", "i", "s", "t",
                     "e", "d", " ", "s", "u", "r", "v", "e", "y", " ", "i",
                     "s", " ">> \o rows[2].pollster \o <<" ", "(">>
                   \o rows[2].date \o <<",", " ">> \o rows[2].sample
                   \o <<")", ",", " ", "s", "h", "o", "w", "i", "n", "g",
                        " ">> \o rows[2].spread \o <<".">> >>
            ELSE <<>>
        Bullets(rows, leader) ==
            (IF leader = <<>> THEN <<>>
             ELSE <<<<"P", "o", "l", "l", "i", "n", "g", " ", "t", "o", "p",
                      "l", "i", "n", "e", "s", " ", "s", "h", "o", "w",
                      " ">> \o leader \o <<" ", "a", "h", "e", "a", "d",
                                           " ", "i", "n", " ", "t", "h",
                                           "e", " ">>
                    \o state_name \o <<" ", "R", "e", "p", "u", "b", "l",
                                       "i", "c", "a", "n", " ", "p", "r",
                                       "i", "m", "a", "r", "y", " ", "(",
                                       "R", "C", "P", " ", "A", "v", "e",
                                       "r", "a", "g", "e", ":", " ">>
                    \o rows[1].spread \o <<")", ".">>>>)
            \o Latest(rows)
            \o (IF leader = <<>> THEN <<>>
                ELSE <<<<"A", "c", "r", "o", "s", "s", " ", "l", "i", "s",
                         "t", "e", "d", " ", "p", "o", "l", "l", "s", ",",
                         " ">> \o leader
                       \o <<" ", "l", "e", "a", "d", "s", " ", "e", "a",
                            "c", "h", " ", "r", "e", "l", "e", "a", "s",
                            "e", ",", " ", "i", "n", "d", "i", "c", "a",
                            "t", "i", "n", "g", " ", "a", " ", "c", "l",
                            "e", "a", "r", " ", "n", "a", "m", "e", "-",
                            "r", "e", "c", "o", "g", "n", "i", "t", "i",
                            "o", "n", " ", "a", "n", "d", " ", "v", "o",
                            "t", "e", "-", "i", "n", "t", "e", "n", "t",
                            " ", "a", "d", "v", "a", "n", "t", "a", "g",
                            "e", " ", "a", "t", " ", "t", "h", "i", "s",
                            " ", "s", "t", "a", "g", "e", ".">>>>)
        Leader(candidates, values) ==
            IF values # <<>> /\ candidates # <<>>
               /\ \A i \in 1..Len(values) : values[i] # None
            THEN candidates[ArgMax(values)]
            ELSE <<>>
        Block(block) ==
            Bullets(block.polls,
                    Leader(block.candidates,
                           [i \in 1..Len(block.polls[1].values) |->
                              parse_float(block.polls[1].values[i])]))
        Polls ==
            IF polls_toplines # <<>> /\ polls_toplines[1].polls # <<>>
            THEN Block(polls_toplines[1])
            ELSE << state_name \o <<" ", "i", "s", " ", "c", "u", "r", "r",
                                    "e", "n", "t", "l", "y", " ", "r", "a",
                                    "t", "e", "d", " ">> \o cook_rating
                    \o <<" ", "b", "y", " ", "C", "o", "o", "k", " ", "P",
                         "o", "l", "i", "t", "i", "c", "a", "l", " ", "R",
                         "e", "p", "o", "r", "t", ".">>,
                    <<"N", "o", " ", "s", "t", "a", "n", "d", "a", "r", "d",
                      "i", "z", "e", "d", " ", "p", "r", "i", "m", "a", "r",
                      "y", " ", "t", "o", "p", "l", "i", "n", "e", " ", "t",
                      "a", "b", "l", "e", " ", "h", "a", "s", " ", "b", "e",
                      "e", "n", " ", "l", "o", "a", "d", "e", "d", " ", "y",
                      "e", "t", " ", "f", "o", "r", " ", "t", "h", "i", "s",
                      " ", "r", "a", "c", "e", " ", "p", "a", "g", "e",
                      ".">> >>
    IN Polls \o Closing

----------------------------------------------------------------------------
(* update_race_data.main                                                   *)
(*                                                                         *)
(* arg holds what each endpoint answers during the run: the ratings page,  *)
(* the dates page, the Polymarket listing, the two Kalshi listings, the    *)
(* Wikipedia page of a race, and the two news feeds.  An endpoint that is  *)
(* down raises on every fetch of the run.                                  *)

\* what the endpoints answer when they are up
Up ==
    [polymarket |->
       PyList(<< PolyMarket(PyStr(<<"G", "e", "o", "r", "g", "i", "a", " ",
                                    "S", "e", "n", "a", "t", "e", " ", "R",
                                    "e", "p", "u", "b", "l", "i", "c", "a",
                                    "n", " ", "p", "r", "i", "m", "a", "r",
                                    "y">>), None,
                            PyStr(<<"1", "2", "0", "0">>), PyStr(<<"g", "a",
                                                                   "-", "g",
                                                                   "o",
                                                                   "p">>), None,
                            PyNum(Dec(31, 2))),
                 PolyMarket(PyStr(<<"O", "h", "i", "o", " ", "S", "e", "n",
                                    "a", "t", "e", " ", "R", "e", "p", "u",
                                    "b", "l", "i", "c", "a", "n", " ", "p",
                                    "r", "i", "m", "a", "r", "y", " ", "w",
                                    "i", "n", "n", "e", "r", "?">>),
                            None, PyNum(Dec(25005, 1)), PyStr(<<"o", "h",
                                                                "-", "g",
                                                                "o", "p">>),
                            None, PyNum(Dec(62, 0))) >>),
     kalshi1 |->
       KalshiPayload(PyList(<< KalshiMarket(
                                 PyStr(<<"G", "e", "o", "r", "g", "i", "a",
                                         " ", "S", "e", "n", "a", "t", "e",
                                         " ", "n", "o", "m", "i", "n", "a",
                                         "t", "i", "o", "n">>), None,
                                 PyStr(<<"S", "E", "N", "G", "A">>), PyNum(Dec(44, 0)),
                                 None, None) >>)),
     kalshi2 |->
       PyList(<< KalshiMarket(PyStr(<<"O", "h", "i", "o", " ", "S", "e",
                                      "n", "a", "t", "e", " ", "p", "r",
                                      "i", "m", "a", "r", "y">>), None,
                              PyStr(<<"S", "E", "N", "O", "H">>), None, None,
                              PyNum(Dec(7, 1))) >>),
     wiki |-> PyStr(<<"<", "p", ">", "A", "g", "g", "r", "e", "g", "a", "t",
                      "e", "s", ":", " ", "R", "e", "a", "l", "C", "l", "e",
                      "a", "r", "P", "o", "l", "i", "t", "i", "c", "s", ",",
                      " ", "R", "a", "c", "e", "T", "o", "T", "h", "e", "W",
                      "H", "<", "/", "p", ">">>),
     google |->
       Rss(<< FeedItem(PyStr(<<"G", "e", "o", "r", "g", "i", "a", " ", "p",
                               "r", "i", "m", "a", "r", "y", " ", "f", "i",
                               "e", "l", "d", " ", "g", "r", "o", "w", "s",
                               " ", "-", " ", "A", "J", "C">>),
                       PyStr(<<"h", "t", "t", "p", "s", ":", "/", "/", "a",
                               ".", "e", "x", "a", "m", "p", "l", "e", "/",
                               "g", "a">>),
                       DateStr(<<"T", "u", "e", ",", " ", "0", "3", " ",
                                 "M", "a", "r", " ", "2", "0", "2", "6",
                                 " ", "0", "9", ":", "3", "0", ":", "0",
                                 "0", " ", "G", "M", "T">>,
                               <<"2", "0", "2", "6", "-", "0", "3", "-",
                                 "0", "3">>),
                       PyStr(<<"A", "J", "C">>)),
              FeedItem(PyStr(<<"O", "h", "i", "o", " ", "p", "r", "i", "m",
                               "a", "r", "y", " ", "a", "d", " ", "w", "a",
                               "r">>),
                       PyStr(<<"h", "t", "t", "p", "s", ":", "/", "/", "a",
                               ".", "e", "x", "a", "m", "p", "l", "e", "/",
                               "o", "h">>), None, None) >>),
     bing |->
       Rss(<< FeedItem(PyStr(<<"G", "E", "O", "R", "G", "I", "A", " ", "P",
                               "R", "I", "M", "A", "R", "Y", " ", "F", "I",
                               "E", "L", "D", " ", "G", "R", "O", "W", "S">>),
                       PyStr(<<"h", "t", "t", "p", "s", ":", "/", "/", "b",
                               ".", "e", "x", "a", "m", "p", "l", "e", "/",
                               "g", "a">>), None, None),
              FeedItem(PyStr(<<"M", "a", "i", "n", "e", " ", "p", "r", "i",
                               "m", "a", "r", "y", " ", "p", "r", "e", "v",
                               "i", "e", "w">>),
                       PyStr(<<"h", "t", "t", "p", "s", ":", "/", "/", "b",
                               ".", "e", "x", "a", "m", "p", "l", "e", "/",
                               "m", "e">>), None, None) >>)]

InitRaceData ==
    /\ pc = "cook"
    /\ LET \* dates pages: dates of two rated states, a state without default date and
           \* a territory; a page whose second date is no day of the calendar;
           \* a page that lists a state twice
           DatesPages ==
               {PyStr(<<"<", "t", "r", ">", "<", "t", "d", ">", "G", "e",
                        "o", "r", "g", "i", "a", "<", "/", "t", "d", ">",
                        "<", "t", "d", ">", "0", "5", "/", "2", "6", "/",
                        "2", "0", "2", "6", "<", "/", "t", "d", ">", "<",
                        "/", "t", "r", ">", "<", "t", "r", ">", "<", "t",
                        "d", ">", " ", "O", "h", "i", "o", " ", "<", "/",
                        "t", "d", ">", " ", "<", "t", "d", ">", " ", "0",
                        "5", "/", "1", "2", "/", "2", "0", "2", "6", " ",
                        "<", "/", "t", "d", ">", "<", "/", "t", "r", ">",
                        "<", "t", "r", ">", "<", "t", "d", ">", "C", "a",
                        "l", "i", "f", "o", "r", "n", "i", "a", "<", "/",
                        "t", "d", ">", "<", "t", "d", ">", "0", "6", "/",
                        "0", "2", "/", "2", "0", "2", "6", "<", "/", "t",
                        "d", ">", "<", "/", "t", "r", ">", "<", "t", "r",
                        ">", "<", "t", "d", ">", "G", "u", "a", "m", "<",
                        "/", "t", "d", ">", "<", "t", "d", ">", "0", "8",
                        "/", "0", "1", "/", "2", "0", "2", "6", "<", "/",
                        "t", "d", ">", "<", "/", "t", "r", ">">>),
                PyStr(<<"<", "t", "d", ">", "M", "a", "i", "n", "e", "<",
                        "/", "t", "d", ">", "<", "t", "d", ">", "0", "6",
                        "/", "1", "6", "/", "2", "0", "2", "6", "<", "/",
                        "t", "d", ">", "<", "t", "d", ">", "A", "l", "a",
                        "s", "k", "a", "<", "/", "t", "d", ">", "<", "t",
                        "d", ">", "0", "2", "/", "3", "0", "/", "2", "0",
                        "2", "6", "<", "/", "t", "d", ">", "<", "t", "d",
                        ">", "O", "h", "i", "o", "<", "/", "t", "d", ">",
                        "<", "t", "d", ">", "0", "5", "/", "1", "2", "/",
                        "2", "0", "2", "6", "<", "/", "t", "d", ">">>),
                PyStr(<<"<", "t", "d", ">", "T", "e", "x", "a", "s", "<",
                        "/", "t", "d", ">", "<", "t", "d", ">", "0", "3",
                        "/", "0", "3", "/", "2", "0", "2", "6", "<", "/",
                        "t", "d", ">", "<", "t", "d", ">", "T", "e", "x",
                        "a", "s", "<", "/", "t", "d", ">", "<", "t", "d",
                        ">", "0", "5", "/", "2", "6", "/", "2", "0", "2",
                        "6", "<", "/", "t", "d", ">">>)}
       IN arg \in {[ratings |-> ratings, dates |-> dates,
                       polymarket |-> IF "polymarket" \in down THEN Raised
                                      ELSE Up.polymarket,
                       kalshi |-> << IF "kalshi1" \in down THEN Raised ELSE Up.kalshi1,
                                     IF "kalshi2" \in down THEN Raised ELSE Up.kalshi2 >>,
                       wiki |-> IF "wiki" \in down THEN Raised ELSE Up.wiki,
                       feeds |-> << IF "google" \in down THEN Raised ELSE Up.google,
                                    IF "bing" \in down THEN Raised ELSE Up.bing >>] :
                        ratings \in {Raised, TwoStatePage, FiveStatePage},
                        dates \in {Raised} \cup DatesPages,
                        down \in SUBSET {"polymarket", "kalshi1", "kalshi2",
                                         "wiki", "google", "bing"}}
    /\ ret = None
    /\ IdleTracker /\ IdleRaceData

\* cook = parse_cook_swing()
RaceCook ==
    /\ pc = "cook"
    /\ cook' = parse_cook_swing(arg.ratings)
    /\ pc' = "dates"
    /\ UNCHANGED <<arg, ret, primary_dates, swing_states, senate_map_states,
                   todo, trackerVars>>

\* primary_dates = parse_ncsl_primary_dates(); todo holds the entries the
\* loop over the rated states has yet to visit
RaceDates ==
    /\ pc = "dates"
    /\ primary_dates' = parse_ncsl_primary_dates(arg.dates)
    /\ LET \* sorted(cook.items(), key=lambda kv: kv[0]): by ascending code
           Less(a, b) ==
               \/ UpperIndex(a[1]) < UpperIndex(b[1])
               \/ (a[1] = b[1] /\ UpperIndex(a[2]) < UpperIndex(b[2]))
           Rank(i) ==
               Cardinality({j \in 1..Len(cook) : Less(cook[j].code, cook[i].code)})
       IN todo' = [p \in 1..Len(cook) |->
                     cook[CHOOSE i \in 1..Len(cook) : Rank(i) = p - 1]]
    /\ pc' = IF cook = <<>> THEN "map" ELSE "states"
    /\ UNCHANGED <<arg, ret, cook, swing_states, senate_map_states, trackerVars>>

\* one turn of the loop over the rated states
RaceState ==
    /\ pc = "states"
    /\ LET Date(entry) ==
               IF entry = None THEN <<"N", "o", "t", " ", "a", "v", "a",
                                      "i", "l", "a", "b", "l", "e">> ELSE entry.date
           Record(info, odds, polls_toplines, polls) ==
               [state |-> info.code,
                state_name |-> info.state_name,
                cook_rating |-> info.cook_rating,
                primary_date |-> Date(Get(primary_dates, info.code)),
                odds |-> odds,
                polls_toplines |-> polls_toplines,
                polls |-> polls.val,
                storylines |-> get_storylines(info.state_name, arg.feeds),
                race_summary |-> summarize_race(info.code, info.state_name,
                                                info.cook_rating,
                                                polls_toplines, odds)]
           Turn(info, polls) ==
               IF polls = Raised
               THEN pc' = "raised" /\ UNCHANGED <<swing_states, todo>>
               ELSE /\ swing_states' =
                         Append(swing_states,
                                Record(info,
                                       [polymarket |->
                                          get_polymarket(info.state_name,
                                                         arg.polymarket),
                                        kalshi |->
                                          get_kalshi(info.state_name, arg.kalshi)],
                                       get_poll_toplines(info.code), polls))
                    /\ todo' = Tail(todo)
                    /\ pc' = IF Tail(todo) = <<>> THEN "map" ELSE "states"
           State(info) == Turn(info, get_polling_refs(info.state_name, arg.wiki))
       IN State(Head(todo))
    /\ UNCHANGED <<arg, ret, cook, primary_dates, senate_map_states, trackerVars>>

\* the loop over ALL_SENATE_ELECTION_STATES
RaceMap ==
    /\ pc = "map"
    /\ LET Date(entry) ==
               IF entry = None THEN <<"N", "o", "t", " ", "a", "v", "a",
                                      "i", "l", "a", "b", "l", "e">> ELSE entry.date
           Entry(code, swing_info) ==
               [state |-> code,
                state_name |-> code_to_name(code),
                primary_date |-> Date(Get(primary_dates, code)),
                competitive |-> swing_info # None,
                cook_rating |-> IF swing_info # None THEN swing_info.cook_rating
                                ELSE <<"N", "o", "t", " ", "r", "a", "t",
                                       "e", "d", " ", "c", "o", "m", "p",
                                       "e", "t", "i", "t", "i", "v", "e">>]
           Map(codes) ==
               [i \in 1..Len(codes) |-> Entry(codes[i], Get(cook, codes[i]))]
       IN senate_map_states' = Map(ALL_SENATE_ELECTION_STATES)
    /\ pc' = "write"
    /\ UNCHANGED <<arg, ret, cook, primary_dates, swing_states, todo, trackerVars>>

\* json.dump(payload, f): ret holds the payload written, without the time
\* of the run and the fixed list of sources
RaceWrite ==
    /\ pc = "write"
    /\ ret' = [refresh_target |-> <<"2", "4", "-", "4", "8", " ", "h", "o",
                                    "u", "r", "s">>,
               senate_election_states |-> senate_map_states,
               swing_states |-> swing_states]
    /\ pc' = "done"
    /\ UNCHANGED <<arg, raceDataVars, trackerVars>>

\* main runs in one thread and every fetch answers or times out after 30
\* seconds: for as long as main has not returned or raised, its program
\* counter moves on
SpecRaceData ==
    /\ InitRaceData
    /\ [][RaceCook \/ RaceDates \/ RaceState \/ RaceMap \/ RaceWrite]_vars
    /\ WF_pc(/\ pc \in {"cook", "dates", "states", "map", "write"}
             /\ pc' \in {"dates", "states", "map", "write", "done", "raised"})

----------------------------------------------------------------------------
(* main: failing fetches are absorbed and the run reaches the write step *)

\* every fetch of the run fails
AllFetchesFail ==
    /\ arg.ratings = Raised /\ arg.dates = Raised
    /\ arg.polymarket = Raised /\ arg.wiki = Raised
    /\ arg.kalshi = <<Raised, Raised>> /\ arg.feeds = <<Raised, Raised>>

\* state code a sorts before state code b
CodeBefore(a, b) ==
    \/ UpperIndex(a[1]) < UpperIndex(b[1])
    \/ (a[1] = b[1] /\ UpperIndex(a[2]) < UpperIndex(b[2]))

\* records holds one record per entry of the ratings lookup, by ascending code
OnePerRatedState(records, lookup) ==
    /\ Len(records) = Len(lookup)
    /\ \A k \in 1..Len(lookup) :
         Cardinality({i \in 1..Len(records) :
                        /\ records[i].state = lookup[k].code
                        /\ records[i].state_name = lookup[k].state_name
                        /\ records[i].cook_rating = lookup[k].cook_rating}) = 1
    /\ \A i \in 1..Len(records) : \A j \in 1..Len(records) :
         i < j => CodeBefore(records[i].state, records[j].state)

\* records holds the seven default states, without markets and with the
\* three placeholder storylines
DefaultsOnly(records) ==
    /\ [i \in 1..Len(records) |-> records[i].state]
         = <<<<"A", "K">>, <<"G", "A">>, <<"M", "E">>, <<"M", "I">>, <<"N",
                                                                       "C">>, <<"N",
                                                                                "H">>, <<"O",
                                                                                         "H">>>>
    /\ \A i \in 1..Len(records) :
         /\ records[i].odds = [polymarket |-> <<>>, kalshi |-> <<>>]
         /\ [k \in 1..Len(records[i].storylines) |->
               records[i].storylines[k].source]
              = <<<<"G", "o", "o", "g", "l", "e", " ", "N", "e", "w", "s">>, <<"B",
                                                                               "i",
                                                                               "n",
                                                                               "g",
                                                                               " ",
                                                                               "N",
                                                                               "e",
                                                                               "w",
                                                                               "s">>, <<"N",
                                                                                        "e",
                                                                                        "w",
                                                                                        "s",
                                                                                        " ",
                                                                                        "s",
                                                                                        "e",
                                                                                        "a",
                                                                                        "r",
                                                                                        "c",
                                                                                        "h">>>>
         /\ \A k \in 1..Len(records[i].storylines) :
              records[i].storylines[k].date = <<>>

\* C4: whichever of the fetches of the run fail (ratings page, dates page,
\* Polymarket, either Kalshi endpoint, Wikipedia page, either news feed), no
\* failure leaves its call site and the run gets to the write step; the
\* swing_states written hold exactly one record per state of the ratings
\* lookup, by ascending state code, and when every fetch fails they are the
\* seven DEFAULT_SWING states, each with empty polymarket and kalshi lists
\* and the placeholder storylines.
C4_FailuresAbsorbed ==
    /\ <>(pc = "done")
    /\ [](pc # "raised")
    /\ [](pc = "done" =>
            /\ OnePerRatedState(ret.swing_states, cook)
            /\ AllFetchesFail => DefaultsOnly(ret.swing_states))

\* the run where every fetch fails has written its seven records
C4_Witness ==
    /\ pc = "done"
    /\ AllFetchesFail
    /\ Len(ret.swing_states) = 7
    /\ cook = DEFAULT_SWING

----------------------------------------------------------------------------
(* get_storylines: never an empty list *)

\* C11: get_storylines returns a non-empty list.  When neither feed yields
\* a record (the fetch or the parse fails, or no item with the state name
\* in its title and a link is left) it returns exactly the three static
\* placeholders, with empty dates; otherwise it returns one to four records
\* of the feeds, those of the first feed before those of the second, and
\* once the first feed has yielded four records the second feed is not
\* fetched.
C11_PlaceholdersOrLiveRecords ==
    pc = "done" =>
      LET In(rec, read) == \E k \in 1..Len(read) : read[k] = rec
          Titles(read) == {lower(read[k].point) : k \in 1..Len(read)}
          Static ==
              /\ [i \in 1..Len(ret) |-> ret[i].point]
                   = << <<"T", "r", "a", "c", "k", " ", "t", "h", "e", " ",
                          "l", "a", "t", "e", "s", "t", " ", "O", "h", "i",
                          "o", " ", "S", "e", "n", "a", "t", "e", " ", "p",
                          "r", "i", "m", "a", "r", "y", " ", "c", "o", "v",
                          "e", "r", "a", "g", "e", " ", "(", "G", "o", "o",
                          "g", "l", "e", " ", "N", "e", "w", "s", ")", ".">>,
                        <<"T", "r", "a", "c", "k", " ", "t", "h", "e", " ",
                          "l", "a", "t", "e", "s", "t", " ", "O", "h", "i",
                          "o", " ", "S", "e", "n", "a", "t", "e", " ", "p",
                          "r", "i", "m", "a", "r", "y", " ", "c", "o", "v",
                          "e", "r", "a", "g", "e", " ", "(", "B", "i", "n",
                          "g", " ", "N", "e", "w", "s", ")", ".">>,
                        <<"R", "e", "v", "i", "e", "w", " ", "c", "a", "m",
                          "p", "a", "i", "g", "n", " ", "r", "e", "p", "o",
                          "r", "t", "i", "n", "g", " ", "a", "n", "d", " ",
                          "u", "p", "d", "a", "t", "e", "s", " ", "f", "o",
                          "r", " ", "t", "h", "e", " ", "O", "h", "i", "o",
                          " ", "r", "a", "c", "e", ".">> >>
              /\ [i \in 1..Len(ret) |-> ret[i].source]
                   = <<<<"G", "o", "o", "g", "l", "e", " ", "N", "e", "w",
                         "s">>, <<"B", "i", "n", "g", " ", "N", "e", "w",
                                  "s">>, <<"N", "e", "w", "s", " ", "s",
                                           "e", "a", "r", "c", "h">>>>
              /\ [i \in 1..Len(ret) |-> ret[i].url]
                   = << <<"h", "t", "t", "p", "s", ":", "/", "/", "n", "e",
                          "w", "s", ".", "g", "o", "o", "g", "l", "e", ".",
                          "c", "o", "m", "/", "s", "e", "a", "r", "c", "h",
                          "?", "q", "=", "O", "h", "i", "o", "%", "2", "0",
                          "S", "e", "n", "a", "t", "e", "%", "2", "0", "r",
                          "a", "c", "e", "%", "2", "0", "2", "0", "2", "6",
                          "%", "2", "0", "p", "r", "i", "m", "a", "r", "y",
                          "&", "h", "l", "=", "e", "n", "-", "U", "S", "&",
                          "g", "l", "=", "U", "S", "&", "c", "e", "i", "d",
                          "=", "U", "S", "%", "3", "A", "e", "n">>,
                        <<"h", "t", "t", "p", "s", ":", "/", "/", "w", "w",
                          "w", ".", "b", "i", "n", "g", ".", "c", "o", "m",
                          "/", "n", "e", "w", "s", "/", "s", "e", "a", "r",
                          "c", "h", "?", "q", "=", "O", "h", "i", "o", "%",
                          "2", "0", "S", "e", "n", "a", "t", "e", "%", "2",
                          "0", "r", "a", "c", "e", "%", "2", "0", "2", "0",
                          "2", "6", "%", "2", "0", "p", "r", "i", "m", "a",
                          "r", "y">>,
                        <<"h", "t", "t", "p", "s", ":", "/", "/", "d", "u",
                          "c", "k", "d", "u", "c", "k", "g", "o", ".", "c",
                          "o", "m", "/", "?", "q", "=", "O", "h", "i", "o",
                          "%", "2", "0", "S", "e", "n", "a", "t", "e", "%",
                          "2", "0", "r", "a", "c", "e", "%", "2", "0", "2",
                          "0", "2", "6", "%", "2", "0", "p", "r", "i", "m",
                          "a", "r", "y">> >>
              /\ \A i \in 1..Len(ret) : ret[i].date = <<>>
          Live(first, second) ==
              /\ Len(ret) \in 1..4
              /\ \A i \in 1..Len(ret) : In(ret[i], first) \/ In(ret[i], second)
              /\ \A i \in 1..Len(ret) : \A j \in 1..Len(ret) :
                   (i < j /\ In(ret[j], first)) => In(ret[i], first)
              /\ Cardinality(Titles(first)) >= 4 =>
                   /\ fetched = <<1>>
                   /\ \A i \in 1..Len(ret) : In(ret[i], first)
              /\ fetched = <<1>> => Cardinality(Titles(first)) >= 4
          Cases(first, second) ==
              /\ Len(ret) > 0
              /\ IF first \o second = <<>> THEN Static ELSE Live(first, second)
      IN Cases(ItemsRead(arg.answers[1], arg.state_name),
               ItemsRead(arg.answers[2], arg.state_name))

\* the first feed yields four records and the second feed, which holds
\* records of its own, is not fetched
C11_Witness ==
    /\ pc = "done"
    /\ fetched = <<1>>
    /\ Len(ret) = 4
    /\ ItemsRead(arg.answers[2], arg.state_name) # <<>>
    /\ \A i \in 1..Len(ret) :
         \E k \in 1..Len(arg.answers[1].channel.val) :
           ItemText(arg.answers[1].channel.val[k].link) = ret[i].url

----------------------------------------------------------------------------
(* parse_ncsl_primary_dates: live dates over the default table *)

\* the rows the pattern of line 179 finds on the dates page
RowsFound(answer) == IF answer = Raised THEN <<>> ELSE DateRows(answer.val, 1)

\* the row names a state of STATE_TO_CODE
RowKnown(row) ==
    \E k \in 1..Len(STATE_TO_CODE) : STATE_TO_CODE[k].state_name = Strip(row[1])

\* the code of the state a known row names
RowCode(row) ==
    STATE_TO_CODE[CHOOSE k \in 1..Len(STATE_TO_CODE) :
                    STATE_TO_CODE[k].state_name = Strip(row[1])].code

\* the known rows whose date is no day of the calendar
RowsUndated(rows) ==
    {i \in 1..Len(rows) : RowKnown(rows[i]) /\ fmt_mmddyyyy(rows[i][2]) = Raised}

\* the lookup holds, for every state, the date of the last of the rows of
\* live that name it, the default date of a state no such row names, and
\* nothing for a state that has neither
LookupFollows(lookup, rows, live) ==
    LET Last(mine) == rows[CHOOSE i \in mine : \A j \in mine : j <= i]
        Entry(code, mine) ==
            IF mine # {}
            THEN [code |-> code, date |-> fmt_mmddyyyy(Last(mine)[2]).val]
            ELSE Get(ALL_DEFAULT_PRIMARY_DATES, code)
    IN \A k \in 1..Len(STATE_TO_CODE) :
         Get(lookup, STATE_TO_CODE[k].code)
           = Entry(STATE_TO_CODE[k].code,
                   {i \in live : /\ RowKnown(rows[i])
                                 /\ RowCode(rows[i]) = STATE_TO_CODE[k].code})

\* every default state is in the lookup, a failed fetch leaves the default
\* table, and every record of senate_election_states written carries the
\* date of the lookup, never "Not available"
DefaultsUnderlie ==
    /\ pc \in {"states", "map", "write", "done"} =>
         /\ \A k \in 1..Len(ALL_DEFAULT_PRIMARY_DATES) :
              Get(primary_dates, ALL_DEFAULT_PRIMARY_DATES[k].code) # None
         /\ arg.dates = Raised => primary_dates = ALL_DEFAULT_PRIMARY_DATES
    /\ pc = "done" =>
         /\ Len(ret.senate_election_states) = Len(ALL_SENATE_ELECTION_STATES)
         /\ \A i \in 1..Len(ret.senate_election_states) :
              /\ ret.senate_election_states[i].state
                   = ALL_SENATE_ELECTION_STATES[i]
              /\ ret.senate_election_states[i].primary_date # <<"N", "o",
                                                                "t", " ",
                                                                "a", "v",
                                                                "a", "i",
                                                                "l", "a",
                                                                "b", "l",
                                                                "e">>
              /\ ret.senate_election_states[i].primary_date
                   = Get(primary_dates, ALL_SENATE_ELECTION_STATES[i]).date

\* C12 as stated: the lookup of parse_ncsl_primary_dates holds every state
\* of ALL_DEFAULT_PRIMARY_DATES; a state that a row of the live page names
\* with a date carries the live date and every other state its default
\* date; a failed fetch leaves the default table; no record of
\* senate_election_states is "Not available".
C12_EveryLiveRowCounts ==
    /\ DefaultsUnderlie
    /\ pc \in {"states", "map", "write", "done"} =>
         LET Follows(rows) ==
                 LookupFollows(primary_dates, rows,
                               (1..Len(rows)) \ RowsUndated(rows))
         IN Follows(RowsFound(arg.dates))

\* C12: the lookup of parse_ncsl_primary_dates holds every state of
\* ALL_DEFAULT_PRIMARY_DATES; a state that a row of the live page names
\* carries the live date of the last such row, as long as the row comes
\* before the first row of a known state whose date is no day of the
\* calendar, and every other state carries its default date; a failed
\* fetch leaves the default table; no record of senate_election_states is
\* "Not available".
C12_LiveRowsBeforeBadDate ==
    /\ DefaultsUnderlie
    /\ pc \in {"states", "map", "write", "done"} =>
         LET Follows(rows, bad) ==
                 LookupFollows(primary_dates, rows,
                               {i \in 1..Len(rows) : \A b \in bad : i < b})
             Of(rows) == Follows(rows, RowsUndated(rows))
         IN Of(RowsFound(arg.dates))

\* the run has written its map from a page that dates Maine, then Alaska on
\* a day that does not exist, then Ohio: Maine carries the live date,
\* Ohio its default
C12_Witness ==
    /\ pc = "done"
    /\ arg.dates # Raised
    /\ RowsUndated(RowsFound(arg.dates)) = {2}
    /\ Get(primary_dates, <<"M", "E">>).date = <<"J", "u", "n", "e", " ",
                                                 "1", "6", ",", " ", "2",
                                                 "0", "2", "6">>
    /\ Get(primary_dates, <<"O", "H">>).date = <<"M", "a", "y", " ", "5",
                                                 ",", " ", "2", "0", "2",
                                                 "6">>
    /\ \E i \in 1..Len(ret.senate_election_states) :
         /\ ret.senate_election_states[i].state = <<"M", "E">>
         /\ ret.senate_election_states[i].primary_date = <<"J", "u", "n",
                                                           "e", " ", "1",
                                                           "6", ",", " ",
                                                           "2", "0", "2",
                                                           "6">>

----------------------------------------------------------------------------
(* parse_table: the order of the candidate columns and of the values *)

\* the candidate columns of a header row: the fifth header on, up to the
\* first "other" or "undecided"
DetectedColumns(headers) ==
    LET End == CHOOSE e \in 5..(Len(headers) + 1) :
                 /\ \A p \in 5..(e - 1) :
                      lower(headers[p]) \notin {<<"o", "t", "h", "e", "r">>, <<"u",
                                                                               "n",
                                                                               "d",
                                                                               "e",
                                                                               "c",
                                                                               "i",
                                                                               "d",
                                                                               "e",
                                                                               "d">>}
                 /\ (e <= Len(headers) =>
                       lower(headers[e]) \in {<<"o", "t", "h", "e", "r">>, <<"u",
                                                                             "n",
                                                                             "d",
                                                                             "e",
                                                                             "c",
                                                                             "i",
                                                                             "d",
                                                                             "e",
                                                                             "d">>})
    IN IF Len(headers) < 5 THEN <<>> ELSE SubSeq(headers, 5, End - 1)

\* the first column of the table, among the candidate columns, under name
ColumnOf(headers, name) ==
    CHOOSE p \in 5..Len(headers) :
      headers[p] = name /\ \A q \in 5..(p - 1) : headers[q] # name

\* shown lists every name of detected once: first the names of requested,
\* in the order of requested, then the others in the order of detected
RequestedFirst(shown, requested, detected) ==
    LET Place(s, name) ==
            CHOOSE k \in 1..Len(s) : s[k] = name /\ \A l \in 1..(k - 1) : s[l] # name
        Asked(name) == \E k \in 1..Len(requested) : requested[k] = name
    IN /\ {shown[i] : i \in 1..Len(shown)} = {detected[i] : i \in 1..Len(detected)}
       /\ \A i \in 1..Len(shown) : \A j \in 1..Len(shown) :
            i < j =>
              /\ shown[i] # shown[j]
              /\ Asked(shown[j]) => Asked(shown[i])
              /\ (Asked(shown[i]) /\ Asked(shown[j])) =>
                   Place(requested, shown[i]) < Place(requested, shown[j])
              /\ (~Asked(shown[i]) /\ ~Asked(shown[j])) =>
                   Place(detected, shown[i]) < Place(detected, shown[j])

\* every returned row is a data row of the table read through Cells: its
\* date and sample are the second and third cell and values[i] is the cell
\* in the column of headers[i]
ValuesByColumn(Cells(_)) ==
    LET Reads(row, cells, headers) ==
            /\ Len(cells) >= 4 + Len(DetectedColumns(headers))
            /\ row.date = clean_text(cells[2].text)
            /\ row.sample = clean_text(cells[3].text)
            /\ \A i \in 1..Len(ret.headers) :
                 row.values[i]
                   = clean_text(cells[ColumnOf(headers, ret.headers[i])].text)
        From(trs, headers) ==
            \A j \in 1..Len(ret.rows) :
              /\ Len(ret.rows[j].values) = Len(ret.headers)
              /\ \E k \in 1..Len(trs) : Reads(ret.rows[j], Cells(trs[k]), headers)
    IN From(DataRows(arg.table.groups), TableHeaders(arg.table))

\* C13 as stated: the returned headers are the detected candidate columns,
\* the requested candidates first in requested order, then the remaining
\* columns in table order, none twice; in every returned row values[i] is
\* the text of the row's cell in the table column of headers[i].
C13_ValuesByTableColumn ==
    (pc = "done" /\ ret # Raised) =>
      /\ RequestedFirst(ret.headers, arg.target_candidates,
                        DetectedColumns(TableHeaders(arg.table)))
      /\ ValuesByColumn(LAMBDA tr : tr)

\* C13: the returned headers are the detected candidate columns, the
\* requested candidates first in requested order, then the remaining
\* columns in table order, none twice; in every returned row values[i] is
\* the text of the row's td cell whose number, counting the td cells of the
\* row only, is the number of the column of headers[i].
C13_ValuesByTdCell ==
    (pc = "done" /\ ret # Raised) =>
      /\ RequestedFirst(ret.headers, arg.target_candidates,
                        DetectedColumns(TableHeaders(arg.table)))
      /\ ValuesByColumn(LAMBDA tr : SelectSeq(tr, LAMBDA c : c.kind = "td"))

\* the poll whose pollster is a th cell has been parsed, its columns shown
\* in the requested order B, A: the values are the cells one column to the
\* right of B and A
C13_Witness ==
    /\ pc = "done"
    /\ ret # Raised
    /\ arg.target_candidates = <<<<"B">>, <<"A">>>>
    /\ \E k \in 1..Len(DataRows(arg.table.groups)) :
         DataRows(arg.table.groups)[k][1].kind = "th"
    /\ ret.headers = <<<<"B">>, <<"A">>>>
    /\ Len(ret.rows) = 1
    /\ ret.rows[1].values = <<<<"5">>, <<"3", "5">>>>

----------------------------------------------------------------------------
(* parse_table: the spread of a row *)

\* the last blank-separated word of a header that has one
LastName(header) ==
    LET End == CHOOSE e \in 1..Len(header) :
                 ~IsSpace(header[e]) /\ \A k \in (e + 1)..Len(header) : IsSpace(header[k])
        Start(e) == CHOOSE b \in 1..e :
                      /\ \A k \in b..e : ~IsSpace(header[k])
                      /\ (b > 1 => IsSpace(header[b - 1]))
    IN SubSeq(header, Start(End), End)

\* a lead of so many tenths of a point as the spread prints it: "5" for 50
\* tenths, "4.5" for 45
LeadText(tenths) ==
    IntStr(tenths \div 10)
      \o (IF tenths % 10 = 0 THEN <<>> ELSE <<".", DigitChar(tenths % 10)>>)

\* the spread of a row of values of at most one decimal under headers
ExpectedSpread(values, headers) ==
    LET Tenths(v) == v.m * 10^(1 - v.e)
        Top(numeric) ==
            CHOOSE w \in 1..Len(numeric) :
              /\ \A k \in 1..Len(numeric) : Tenths(numeric[k]) <= Tenths(numeric[w])
              /\ \A k \in 1..(w - 1) : Tenths(numeric[k]) < Tenths(numeric[w])
        Second(numeric, w) ==
            CHOOSE s \in (1..Len(numeric)) \ {w} :
              \A k \in (1..Len(numeric)) \ {w} :
                Tenths(numeric[k]) <= Tenths(numeric[s])
        Led(numeric, w) ==
            LastName(headers[w]) \o <<" ", "+">>
              \o LeadText(Tenths(numeric[w]) - Tenths(numeric[Second(numeric, w)]))
        Of(numeric) ==
            IF Len(numeric) < 2 \/ \E k \in 1..Len(numeric) : numeric[k] = None
            THEN EmDash
            ELSE Led(numeric, Top(numeric))
    IN Of([k \in 1..Len(values) |-> as_float_percent(values[k])])

\* C14: in every row parse_table returns, the spread is the unknown marker
\* when a candidate value has no numeric token or there are fewer than two
\* candidate columns; otherwise it is the last name of the first candidate,
\* in display order, that holds the largest value, then " +" and the gap
\* between the largest and the second largest value of the row, 0 on a tie,
\* printed without a trailing ".0".
C14_SpreadOfRow ==
    (pc = "done" /\ ret # Raised) =>
      \A j \in 1..Len(ret.rows) :
        ret.rows[j].spread = ExpectedSpread(ret.rows[j].values, ret.headers)

\* a row of two equal values, shown in the requested order B, A: the spread
\* names B, the first of the two, with a lead of 0
C14_Witness ==
    /\ pc = "done"
    /\ ret # Raised
    /\ ret.headers = <<<<"B">>, <<"A">>>>
    /\ Len(ret.rows) = 1
    /\ ret.rows[1].values = <<<<"4", "0">>, <<"4", "0">>>>
    /\ ret.rows[1].spread = <<"B", " ", "+", "0">>

----------------------------------------------------------------------------
(* build_race_entry, lines 272-276: build_snapshot on what parse_table     *)
(* returned                                                                *)

\* tables of one or two polls whose most recent row holds values around
\* the majority threshold, under up to MaxCandidateCols candidate columns
SnapshotParseArgs ==
    UNION { { ParseArgs(Table(<<"w", "i", "k", "i", "t", "a", "b", "l",
                                "e">>,
                              LeadHeaders \o SubSeq(<<<<"A">>, <<"B">>, <<"C",
                                                                          "y",
                                                                          " ",
                                                                          "D",
                                                                          "e",
                                                                          "e">>>>, 1, n)
                                \o <<<<"U", "n", "d", "e", "c", "i", "d",
                                       "e", "d">>>>,
                              <<DataRow(<<<<"P", "o", "l", "l", "s", "t",
                                            "e", "r", " ", "X">>, <<"1",
                                                                    "/",
                                                                    "1",
                                                                    "-",
                                                                    "1",
                                                                    "/",
                                                                    "2">>, <<"5",
                                                                             "0",
                                                                             "0",
                                                                             " ",
                                                                             "L",
                                                                             "V">>,
                                          <<"+", "-", "4", "%">>>> \o vals \o <<<<"5">>>>)>>
                                \o older),
                        target) :
                vals \in [1..n -> {<<"5", "0">>, <<"4", "9", ".", "9", "%">>, <<"6",
                                                                                "2">>, <<"n",
                                                                                         "/",
                                                                                         "a">>}],
                older \in { <<>>, <<PollRow(<<"Q", "u", "a", "n", "t", "u",
                                              "s", " ", "(", "R", ")">>, PollValues[2], n)>> },
                target \in { <<<<"A">>, <<"B">>>>, <<<<"B">>, <<"A">>>> } } :
            n \in 0..MaxCandidateCols }

InitSnapshot ==
    /\ pc = "parse"
    /\ arg \in {ExampleArgs, ExampleArgs4} \cup GeneratedParseArgs
                 \cup ChosenParseArgs \cup SnapshotParseArgs
    /\ ret = None
    /\ IdleTracker /\ IdleRaceData

\* line 272: parsed = parse_table(table, notes, defn["candidates"], defn["id"])
SnapshotParse ==
    /\ pc = "parse"
    /\ LET Parsed(parsed) ==
               /\ ret' = parsed
               /\ pc' = IF parsed = Raised THEN "raised" ELSE "snapshot"
       IN Parsed(parse_table(arg.table, arg.notes, arg.target_candidates,
                             arg.race_id))
    /\ UNCHANGED <<arg, trackerVars, raceDataVars>>

\* line 276: build_snapshot(defn["name"], parsed["headers"], parsed["rows"]);
\* ret keeps what was parsed next to the snapshot
SnapshotBuild ==
    /\ pc = "snapshot"
    /\ LET name == RACES[CHOOSE k \in 1..Len(RACES) :
                            RACES[k].id = arg.race_id].name
           Built(snapshot) ==
               /\ ret' = [headers |-> ret.headers, rows |-> ret.rows,
                          snapshot |-> snapshot]
               /\ pc' = IF snapshot = Raised THEN "raised" ELSE "done"
       IN Built(build_snapshot(name, ret.headers, ret.rows))
    /\ UNCHANGED <<arg, trackerVars, raceDataVars>>

SpecSnapshot == InitSnapshot /\ [][SnapshotParse \/ SnapshotBuild]_vars

----------------------------------------------------------------------------
(* build_snapshot: the leader and the next-most-recent row *)

\* the candidate values of a parsed row as numbers, None for a value
\* without a numeric token
NumericOf(row) ==
    [k \in 1..Len(row.values) |-> as_float_percent(row.values[k])]

\* every value of the row is a number and there are at least two
Ranked(numeric) ==
    Len(numeric) >= 2 /\ \A k \in 1..Len(numeric) : numeric[k] # None

\* w is the first index of numeric holding its largest value
FirstLargest(numeric, w) ==
    /\ \A k \in 1..Len(numeric) : DecLeq(numeric[k], numeric[w])
    /\ \A k \in 1..(w - 1) : DecLess(numeric[k], numeric[w])

\* C15: when every value of the most recent row is a number and there are
\* at least two, the first bullet of build_snapshot names the header at the
\* first index holding the largest value of that row, the earliest column on
\* a tie, and quotes the row's spread, in which parse_table names the same
\* candidate by last name; when there is a second row, the bullets include
\* one noting its pollster, date and sample.
C15_LeaderIsFirstMaximum ==
    (pc = "done" /\ ret.rows # <<>>) =>
      /\ Ranked(NumericOf(ret.rows[1])) =>
           \E w \in 1..Len(ret.headers) :
             /\ FirstLargest(NumericOf(ret.rows[1]), w)
             /\ ret.snapshot.val[1] =
                  ret.headers[w] \o <<" ", "l", "e", "a", "d", "s", " ",
                                      "t", "h", "e", " ", "m", "o", "s",
                                      "t", " ", "r", "e", "c", "e", "n",
                                      "t", " ", "p", "u", "b", "l", "i",
                                      "s", "h", "e", "d", " ", "p", "o",
                                      "l", "l", " ", "r", "o", "w", " ",
                                      "(">>
                    \o ret.rows[1].spread \o <<")", ".">>
             /\ StartsWith(ret.rows[1].spread,
                           LastName(ret.headers[w]) \o <<" ", "+">>)
      /\ Len(ret.rows) > 1 =>
           \E b \in 1..Len(ret.snapshot.val) :
             ret.snapshot.val[b] =
               <<"N", "e", "x", "t", "-", "m", "o", "s", "t", "-", "r", "e",
                 "c", "e", "n", "t", " ", "r", "o", "w", " ", "i", "s",
                 " ">> \o ret.rows[2].pollster \o <<" ", "(">>
                 \o ret.rows[2].date \o <<",", " ">> \o ret.rows[2].sample \o <<")",
                                                                                ".">>

\* two polls under the columns A, B shown in the requested order B, A; the
\* most recent one is a tie at 50: B, the earliest column, leads, and the
\* older poll is noted
C15_Witness ==
    /\ pc = "done"
    /\ ret.headers = <<<<"B">>, <<"A">>>>
    /\ Len(ret.rows) = 2
    /\ ret.rows[1].values = <<<<"5", "0">>, <<"5", "0">>>>
    /\ ret.snapshot.val =
         << <<"B", " ", "l", "e", "a", "d", "s", " ", "t", "h", "e", " ",
              "m", "o", "s", "t", " ", "r", "e", "c", "e", "n", "t", " ",
              "p", "u", "b", "l", "i", "s", "h", "e", "d", " ", "p", "o",
              "l", "l", " ", "r", "o", "w", " ", "(", "B", " ", "+", "0",
              ")", ".">>,
            <<"N", "e", "x", "t", "-", "m", "o", "s", "t", "-", "r", "e",
              "c", "e", "n", "t", " ", "r", "o", "w", " ", "i", "s", " ",
              "Q", "u", "a", "n", "t", "u", "s", " ", "(", "1", "/", "1",
              "-", "1", "/", "2", ",", " ", "5", "0", "0", " ", "L", "V",
              ")", ".">>,
            <<"R", "e", "c", "e", "n", "t", " ", "t", "o", "p", "l", "i",
              "n", "e", "s", " ", "s", "h", "o", "w", " ", "a", " ", "c",
              "l", "e", "a", "r", " ", "f", "r", "o", "n", "t", "-", "r",
              "u", "n", "n", "e", "r", " ", "a", "d", "v", "a", "n", "t",
              "a", "g", "e", ".">> >>

----------------------------------------------------------------------------
(* build_snapshot: the bullet on the majority threshold *)

\* the bullet is one of the snapshot
InSnapshot(bullet) ==
    \E b \in 1..Len(ret.snapshot.val) : ret.snapshot.val[b] = bullet

\* v is a number of at least the majority threshold
AtLeastMajority(v) ==
    v # None /\ ~DecLess(v, [m |-> MajorityThreshold, e |-> 0])

\* C16: the front-runner bullet is emitted only when the leading value of
\* the most recent row is at least 50, the no-majority bullet only when
\* every value of that row is below 50, and the front-runner bullet never
\* accompanies the fragmented-field bullet of a row with a value that could
\* not be parsed.
C16_FlagsLeaderAgainstMajority ==
    (pc = "done" /\ ret.rows # <<>>) =>
      LET numeric == NumericOf(ret.rows[1])
      IN /\ InSnapshot(<<"R", "e", "c", "e", "n", "t", " ", "t", "o", "p",
                         "l", "i", "n", "e", "s", " ", "s", "h", "o", "w",
                         " ", "a", " ", "c", "l", "e", "a", "r", " ", "f",
                         "r", "o", "n", "t", "-", "r", "u", "n", "n", "e",
                         "r", " ", "a", "d", "v", "a", "n", "t", "a", "g",
                         "e", ".">>) =>
              \E k \in 1..Len(numeric) : AtLeastMajority(numeric[k])
         /\ InSnapshot(<<"N", "o", " ", "c", "a", "n", "d", "i", "d", "a",
                         "t", "e", " ", "i", "s", " ", "n", "e", "a", "r",
                         " ", "a", "n", " ", "o", "u", "t", "r", "i", "g",
                         "h", "t", " ", "m", "a", "j", "o", "r", "i", "t",
                         "y", " ", "i", "n", " ", "r", "e", "c", "e", "n",
                         "t", " ", "t", "o", "p", "l", "i", "n", "e", "s",
                         ",", " ", "k", "e", "e", "p", "i", "n", "g", " ",
                         "r", "u", "n", "o", "f", "f", " ", "d", "y", "n",
                         "a", "m", "i", "c", "s", " ", "r", "e", "l", "e",
                         "v", "a", "n", "t", ".">>) =>
              \A k \in 1..Len(numeric) : ~AtLeastMajority(numeric[k])
         /\ ~ /\ InSnapshot(<<"R", "e", "c", "e", "n", "t", " ", "t", "o",
                              "p", "l", "i", "n", "e", "s", " ", "s", "h",
                              "o", "w", " ", "a", " ", "c", "l", "e", "a",
                              "r", " ", "f", "r", "o", "n", "t", "-", "r",
                              "u", "n", "n", "e", "r", " ", "a", "d", "v",
                              "a", "n", "t", "a", "g", "e", ".">>)
              /\ InSnapshot(<<"T", "h", "e", " ", "m", "o", "s", "t", " ",
                              "r", "e", "c", "e", "n", "t", " ", "p", "o",
                              "l", "l", " ", "r", "o", "w", " ", "s", "h",
                              "o", "w", "s", " ", "a", " ", "f", "r", "a",
                              "g", "m", "e", "n", "t", "e", "d", " ", "f",
                              "i", "e", "l", "d", " ", "w", "i", "t", "h",
                              " ", "n", "o", " ", "c", "l", "e", "a", "r",
                              " ", "m", "a", "j", "o", "r", "i", "t", "y",
                              ".">>)
              /\ \E k \in 1..Len(numeric) : numeric[k] = None

----------------------------------------------------------------------------
(* build_snapshot: what it returns on the results of parse_table *)

\* C17: on the headers and rows of every table parse_table returns from,
\* build_snapshot returns a list of one to three bullets and does not raise.
C17_TotalOverParsedTables ==
    (pc \in {"done", "raised"} /\ ret # Raised) =>
      /\ ret.snapshot # Raised
      /\ Len(ret.snapshot.val) \in 1..3

====
